---- MODULE Spec2Model ----
(***************************************************************************)
(* A model of vibegame: the territory grid (world/map.py), the faction     *)
(* ledger (team.py), the attack and alliance actions (actions/), the AI    *)
(* decision policy (ai/controller.py) and the turn/phase orchestrator      *)
(* (game.py).                                                              *)
(*                                                                         *)
(* Floats are fixed-point integers in units of 1/Unit; x * 0.9 is          *)
(* (x * 9) \div 10 and x / 3 is x \div 3.  A Team's territories list is a  *)
(* map id -> number of occurrences (the code never reads its order).       *)
(* A dict keyed by team name is keyed by team index (names are unique);    *)
(* pending_alliance_offers keeps its insertion order as a sequence.        *)
(* Random draws are inputs chosen with \E.  The key-repeat and hold timers  *)
(* (_key_hold_start, _key_last_trigger, _space_hold_start) are inputs too:  *)
(* whether a held key fires is chosen with \E.                             *)
(***************************************************************************)
EXTENDS Integers, Sequences, FiniteSets, TLC

\* ---------------------------------------------------------------- bounds
\* GameMap(cols, rows): the grid of the model (settings.py has 10 x 8).
Cols == 2
Rows == 2
\* NUM_TEAMS of the model (settings.py has 6); team 0 is the player.
NumTeams == 3
\* territories_per_team of assign_clustered_start (game.py passes 5).
TerritoriesPerTeam == 1
\* Rounds explored by Spec: no step is taken once current_turn exceeds it.
MaxTurn == 1
\* Rounds explored by SpecWar while the player is in the game, and after the
\* player's elimination.
MaxWarTurn == 2
MaxAutoTurn == 3
\* Spend key presses (H/M, or a held key repeating) explored per game.
MaxSpendPresses == 1
\* update() calls and input events explored after GAME_OVER.
MaxOverCalls == 2
\* ALLIANCE_DURATION and ALLIANCE_MIN_SHARED_BORDERS of the model.
ALLIANCE_DURATION == 2
ALLIANCE_MIN_SHARED_BORDERS == 1

\* ------------------------------------------------------------- constants
Unit == 10 * 10
STARTING_RESOURCES == 100
STARTING_HAPPINESS == 50
STARTING_MILITARY == 25
RESOURCE_SPEND_INCREMENT == 10
STAT_NORMALIZATION_THRESHOLD == 100000
STAT_NORMALIZATION_DIVISOR == 1000
\* len(STAT_SCALE_SUFFIXES)
NumScaleSuffixes == 7

None == 0 - 1
Teams == 0 .. (NumTeams - 1)
Player == 0
TeamOrNone == Teams \cup {None}
Ids == 0 .. (Cols * Rows - 1)

Max(a, b) == IF a >= b THEN a ELSE b

\* ------------------------------------------------------- world/map.py
grid_x(t) == t % Cols
grid_y(t) == t \div Cols

\* GameMap.get_territory_at: the id at (x, y), None when out of range.
get_territory_at(x, y) ==
    IF 0 <= x /\ x < Cols /\ 0 <= y /\ y < Rows THEN y * Cols + x ELSE None

\* GameMap._create_grid: neighbor_ids in the order up, down, left, right.
neighbor_ids(t) ==
    LET x == grid_x(t)
        y == grid_y(t)
    IN  (IF y > 0 THEN <<(y - 1) * Cols + x>> ELSE <<>>)
        \o (IF y < Rows - 1 THEN <<(y + 1) * Cols + x>> ELSE <<>>)
        \o (IF x > 0 THEN <<y * Cols + (x - 1)>> ELSE <<>>)
        \o (IF x < Cols - 1 THEN <<y * Cols + (x + 1)>> ELSE <<>>)

Range(s) == {s[i] : i \in 1 .. Len(s)}

\* Territory.is_adjacent_to
is_adjacent_to(t, u) == u \in Range(neighbor_ids(t))

\* GameMap.get_neighbors (every neighbor id is a territory of the grid).
get_neighbors(t) == {u \in Ids : u \in Range(neighbor_ids(t))}

\* GameMap.total_territories
total_territories == Cols * Rows

\* ---------------------------------------------------------------- state
VARIABLES
    teams,                          \* Game.teams: index -> Team fields
    owner,                          \* Territory.owner, per territory id
    phase,                          \* Game.phase
    current_turn,                   \* Game.current_turn
    current_team_index,             \* Game.current_team_index
    winner,                         \* Game.winner
    waiting_for_advance,            \* Game.waiting_for_advance
    selected_territory,             \* Game.selected_territory
    has_captured_empty_this_turn,   \* Game.has_captured_empty_this_turn
    has_attacked_enemy_this_turn,   \* Game.has_attacked_enemy_this_turn
    attacked_territories_this_turn, \* Game.attacked_territories_this_turn
    negotiation_target,             \* Game.negotiation_target
    pending_player_offer,           \* Game.pending_player_offer
    stat_scale_level,               \* Game.stat_scale_level
    log,                            \* the action executed by the last step, with its ActionResult
    spend_presses,                  \* spend key presses so far
    over_calls,                     \* calls made while phase is GAME_OVER
    executed,                       \* actions executed on their own, outside Game
    before                          \* the state a call made on its own was made in

vars == <<teams, owner, phase, current_turn, current_team_index, winner,
          waiting_for_advance, selected_territory, has_captured_empty_this_turn,
          has_attacked_enemy_this_turn, attacked_territories_this_turn,
          negotiation_target, pending_player_offer, stat_scale_level, log,
          spend_presses, over_calls, executed, before>>

\* The program state as one value; a method is an operator from state to state.
State ==
    [teams |-> teams, owner |-> owner, phase |-> phase,
     current_turn |-> current_turn, current_team_index |-> current_team_index,
     winner |-> winner, waiting_for_advance |-> waiting_for_advance,
     selected_territory |-> selected_territory,
     has_captured_empty_this_turn |-> has_captured_empty_this_turn,
     has_attacked_enemy_this_turn |-> has_attacked_enemy_this_turn,
     attacked_territories_this_turn |-> attacked_territories_this_turn,
     negotiation_target |-> negotiation_target,
     pending_player_offer |-> pending_player_offer,
     stat_scale_level |-> stat_scale_level, log |-> log,
     spend_presses |-> spend_presses, over_calls |-> over_calls,
     executed |-> executed]

\* No call has been made on its own.
NoBefore == [called |-> FALSE]

\* The fields of the game become those of state s.
Fields(s) ==
    /\ teams' = s.teams
    /\ owner' = s.owner
    /\ phase' = s.phase
    /\ current_turn' = s.current_turn
    /\ current_team_index' = s.current_team_index
    /\ winner' = s.winner
    /\ waiting_for_advance' = s.waiting_for_advance
    /\ selected_territory' = s.selected_territory
    /\ has_captured_empty_this_turn' = s.has_captured_empty_this_turn
    /\ has_attacked_enemy_this_turn' = s.has_attacked_enemy_this_turn
    /\ attacked_territories_this_turn' = s.attacked_territories_this_turn
    /\ negotiation_target' = s.negotiation_target
    /\ pending_player_offer' = s.pending_player_offer
    /\ stat_scale_level' = s.stat_scale_level
    /\ log' = s.log
    /\ spend_presses' = s.spend_presses
    /\ over_calls' = s.over_calls
    /\ executed' = s.executed

\* A step of the game leaves state s.
Set(s) == Fields(s) /\ before' = NoBefore

\* A call made on its own leaves state s; before keeps the state it was made
\* in, without the log of an earlier call and the count of calls.
Call(s) ==
    /\ Fields(s)
    /\ before' = [teams |-> teams, owner |-> owner, phase |-> phase,
                  current_turn |-> current_turn,
                  current_team_index |-> current_team_index,
                  winner |-> winner, waiting_for_advance |-> waiting_for_advance,
                  selected_territory |-> selected_territory,
                  has_captured_empty_this_turn |-> has_captured_empty_this_turn,
                  has_attacked_enemy_this_turn |-> has_attacked_enemy_this_turn,
                  attacked_territories_this_turn |-> attacked_territories_this_turn,
                  negotiation_target |-> negotiation_target,
                  pending_player_offer |-> pending_player_offer,
                  stat_scale_level |-> stat_scale_level, log |-> [name |-> "none"],
                  spend_presses |-> spend_presses, over_calls |-> over_calls,
                  executed |-> 0, called |-> TRUE]

NoLog == [name |-> "none"]

\* ------------------------------------------------------------- team.py
\* Team(...): a faction with the given starting stats and nothing else.
NewTeam(res, hap, mil) ==
    [resources |-> res, happiness |-> hap, military_power |-> mil,
     territories |-> [t \in Ids |-> 0],
     alliances |-> [g \in Teams |-> None],
     pending_alliance_offers |-> <<>>]

RECURSIVE SumUpTo(_, _)
SumUpTo(f, n) == IF n < 0 THEN 0 ELSE f[n] + SumUpTo(f, n - 1)

\* Team.territory_count: len(self.territories)
territory_count(s, f) == SumUpTo(s.teams[f].territories, Cols * Rows - 1)

\* Team.add_territory
add_territory(s, f, t) ==
    IF s.teams[f].territories[t] = 0
    THEN [s EXCEPT !.teams[f].territories[t] = 1, !.owner[t] = f]
    ELSE s

\* remove_territory that clears the owner and keeps the list entry.
remove_territory_keeps_entry(s, f, t) ==
    IF s.teams[f].territories[t] > 0
    THEN [s EXCEPT !.owner[t] = None]
    ELSE s

\* Team.remove_territory
remove_territory(s, f, t) ==
    IF s.teams[f].territories[t] > 0
    THEN [s EXCEPT !.teams[f].territories[t] = @ - 1, !.owner[t] = None]
    ELSE s

\* Team.is_eliminated
is_eliminated(s, f) == territory_count(s, f) = 0

\* The growth computed from the happiness the decay leaves.
apply_resource_growth_after_decay(s, f, total) ==
    IF total <= 0 THEN s
    ELSE [s EXCEPT !.teams[f].resources =
              @ + (((s.teams[f].happiness * 9) \div 10) * territory_count(s, f)) \div total]

\* Team.apply_resource_growth: happiness * (territory_count / total_territories)
apply_resource_growth(s, f, total) ==
    IF total <= 0 THEN s
    ELSE [s EXCEPT !.teams[f].resources =
              @ + (s.teams[f].happiness * territory_count(s, f)) \div total]

\* Team.apply_happiness_decay with rate 0.10: max(0, happiness * 0.9)
apply_happiness_decay(s, f) ==
    [s EXCEPT !.teams[f].happiness = Max(0, (@ * 9) \div 10)]

\* The purchase that must leave some resources over.
spend_on_happiness_strict(s, f, amount) ==
    IF s.teams[f].resources > amount
    THEN [s EXCEPT !.teams[f].resources = @ - amount,
                   !.teams[f].happiness = @ + amount]
    ELSE s

\* Team.spend_on_happiness (the returned bool is resources >= amount)
spend_on_happiness(s, f, amount) ==
    IF s.teams[f].resources >= amount
    THEN [s EXCEPT !.teams[f].resources = @ - amount,
                   !.teams[f].happiness = @ + amount]
    ELSE s

\* The purchase that does not look at the resources left.
spend_on_military_overdraft(s, f, amount) ==
    [s EXCEPT !.teams[f].resources = @ - amount,
              !.teams[f].military_power = @ + amount]

\* Team.spend_on_military
spend_on_military(s, f, amount) ==
    IF s.teams[f].resources >= amount
    THEN [s EXCEPT !.teams[f].resources = @ - amount,
                   !.teams[f].military_power = @ + amount]
    ELSE s

\* Team.is_allied_with
is_allied_with(s, f, g) ==
    s.teams[f].alliances[g] # None /\ s.teams[f].alliances[g] > 0

\* Team.get_alliance_turns_remaining
get_alliance_turns_remaining(s, f, g) ==
    IF s.teams[f].alliances[g] # None THEN s.teams[f].alliances[g] ELSE 0

\* form_alliance that writes the entry of the calling side only.
form_alliance_one_sided(s, f, g, duration) ==
    LET cost_self == s.teams[f].happiness \div 3
        cost_other == s.teams[g].happiness \div 3
        s1 == [s EXCEPT !.teams[f].happiness = @ - cost_self]
        s2 == [s1 EXCEPT !.teams[g].happiness = @ - cost_other]
    IN  [s2 EXCEPT !.teams[f].alliances[g] = duration]

\* Team.form_alliance
form_alliance(s, f, g, duration) ==
    LET cost_self == s.teams[f].happiness \div 3
        cost_other == s.teams[g].happiness \div 3
        s1 == [s EXCEPT !.teams[f].happiness = @ - cost_self]
        s2 == [s1 EXCEPT !.teams[g].happiness = @ - cost_other]
        s3 == [s2 EXCEPT !.teams[f].alliances[g] = duration]
    IN  [s3 EXCEPT !.teams[g].alliances[f] = duration]

\* tick_alliances that lets an entry of 1 live one tick longer.
tick_alliances_late(s, f) ==
    [s EXCEPT !.teams[f].alliances =
        [g \in Teams |->
            IF @[g] = None THEN None
            ELSE IF @[g] < 1 THEN None
            ELSE @[g] - 1]]

\* Team.tick_alliances: the map after the tick.
tick_alliances(s, f) ==
    [s EXCEPT !.teams[f].alliances =
        [g \in Teams |->
            IF @[g] = None THEN None
            ELSE IF @[g] <= 1 THEN None
            ELSE @[g] - 1]]

\* Team.tick_alliances: the returned names (as a set).
tick_expired(s, f) ==
    {g \in Teams : s.teams[f].alliances[g] # None /\ s.teams[f].alliances[g] <= 1}

\* Team.has_pending_offer_from
has_pending_offer_from(s, f, g) == g \in Range(s.teams[f].pending_alliance_offers)

\* clear_pending_offer_from that drops every offer the team holds.
clear_pending_offer_from_everyone(s, f, g) ==
    [s EXCEPT !.teams[f].pending_alliance_offers = <<>>]

\* Team.clear_pending_offer_from
clear_pending_offer_from(s, f, g) ==
    [s EXCEPT !.teams[f].pending_alliance_offers = SelectSeq(@, LAMBDA x : x # g)]

\* Team.add_pending_offer_from (a dict keeps the position of an existing key)
add_pending_offer_from(s, f, g) ==
    IF g \in Range(s.teams[f].pending_alliance_offers) THEN s
    ELSE [s EXCEPT !.teams[f].pending_alliance_offers = Append(@, g)]

\* --------------------------------------------------- actions/attack.py
\* is_valid without the alliance check.
AttackIsValid_ignores_alliance(s, actor, target, from, to) ==
    /\ s.owner[from] = actor
    /\ s.owner[to] # actor
    /\ s.owner[to] = target
    /\ is_adjacent_to(from, to)

\* is_valid without the comparison of the owner with the declared target.
AttackIsValid_ignores_target(s, actor, target, from, to) ==
    /\ s.owner[from] = actor
    /\ s.owner[to] # actor
    /\ ~(target # None /\ is_allied_with(s, actor, target))
    /\ is_adjacent_to(from, to)

\* AttackAction.is_valid
AttackIsValid(s, actor, target, from, to) ==
    /\ s.owner[from] = actor
    /\ s.owner[to] # actor
    /\ s.owner[to] = target
    /\ ~(target # None /\ is_allied_with(s, actor, target))
    /\ is_adjacent_to(from, to)

\* The AttackAction a step executed and the ActionResult it returned;
\* ally_turns is actor.alliances[target.name] at the call, r1 and r2 are the
\* draws the rolls were made with.
AttackLog(s, actor, target, from, to, r1, r2, a_roll, d_roll, ok, msg, changed) ==
    [name |-> "Attack", actor |-> actor, target |-> target, from |-> from,
     to |-> to,
     ally_turns |-> IF target = None THEN None ELSE s.teams[actor].alliances[target],
     r1 |-> r1, r2 |-> r2,
     attacker_roll |-> a_roll, defender_roll |-> d_roll,
     success |-> ok, message |-> msg, territory_changed |-> changed]

\* execute where a tie goes to the attacker.
AttackExecute_tie_wins(s, actor, target, from, to, r1, r2) ==
    IF ~AttackIsValid(s, actor, target, from, to)
    THEN [s EXCEPT !.log = AttackLog(s, actor, target, from, to, None, None, None, None,
                                     FALSE, "Invalid attack", None)]
    ELSE IF target = None
    THEN [add_territory(s, actor, to) EXCEPT
             !.log = AttackLog(s, actor, target, from, to, None, None, None, None,
                               TRUE, "captured empty territory", to)]
    ELSE LET attacker_roll == s.teams[actor].military_power * r1
             defender_roll == s.teams[target].military_power * r2
         IN  IF attacker_roll >= defender_roll
             THEN [add_territory(remove_territory(s, target, to), actor, to) EXCEPT
                      !.teams[actor].military_power = (@ * 9) \div 10,
                      !.log = AttackLog(s, actor, target, from, to, r1, r2, attacker_roll,
                                        defender_roll, TRUE, "defeated", to)]
             ELSE [s EXCEPT
                      !.teams[actor].military_power = (@ * 8) \div 10,
                      !.log = AttackLog(s, actor, target, from, to, r1, r2, attacker_roll,
                                        defender_roll, FALSE, "attack failed", None)]

\* execute where the capture of an unowned territory costs military power too.
AttackExecute_empty_costs(s, actor, target, from, to, r1, r2) ==
    IF ~AttackIsValid(s, actor, target, from, to)
    THEN [s EXCEPT !.log = AttackLog(s, actor, target, from, to, None, None, None, None,
                                     FALSE, "Invalid attack", None)]
    ELSE IF target = None
    THEN [add_territory(s, actor, to) EXCEPT
             !.teams[actor].military_power = (@ * 9) \div 10,
             !.log = AttackLog(s, actor, target, from, to, None, None, None, None,
                               TRUE, "captured empty territory", to)]
    ELSE LET attacker_roll == s.teams[actor].military_power * r1
             defender_roll == s.teams[target].military_power * r2
         IN  IF attacker_roll > defender_roll
             THEN [add_territory(remove_territory(s, target, to), actor, to) EXCEPT
                      !.teams[actor].military_power = (@ * 9) \div 10,
                      !.log = AttackLog(s, actor, target, from, to, r1, r2, attacker_roll,
                                        defender_roll, TRUE, "defeated", to)]
             ELSE [s EXCEPT
                      !.teams[actor].military_power = (@ * 8) \div 10,
                      !.log = AttackLog(s, actor, target, from, to, r1, r2, attacker_roll,
                                        defender_roll, FALSE, "attack failed", None)]

\* execute that resolves the attack without asking is_valid.
AttackExecute_unchecked(s, actor, target, from, to, r1, r2) ==
    IF target = None
    THEN [add_territory(s, actor, to) EXCEPT
             !.log = AttackLog(s, actor, target, from, to, None, None, None, None,
                               TRUE, "captured empty territory", to)]
    ELSE LET attacker_roll == s.teams[actor].military_power * r1
             defender_roll == s.teams[target].military_power * r2
         IN  IF attacker_roll > defender_roll
             THEN [add_territory(remove_territory(s, target, to), actor, to) EXCEPT
                      !.teams[actor].military_power = (@ * 9) \div 10,
                      !.log = AttackLog(s, actor, target, from, to, r1, r2, attacker_roll,
                                        defender_roll, TRUE, "defeated", to)]
             ELSE [s EXCEPT
                      !.teams[actor].military_power = (@ * 8) \div 10,
                      !.log = AttackLog(s, actor, target, from, to, r1, r2, attacker_roll,
                                        defender_roll, FALSE, "attack failed", None)]

\* execute whose winner takes the territory from the defender without adding
\* it to its own.
AttackExecute_drops_territory(s, actor, target, from, to, r1, r2) ==
    IF ~AttackIsValid(s, actor, target, from, to)
    THEN [s EXCEPT !.log = AttackLog(s, actor, target, from, to, None, None, None, None,
                                     FALSE, "Invalid attack", None)]
    ELSE IF target = None
    THEN [add_territory(s, actor, to) EXCEPT
             !.log = AttackLog(s, actor, target, from, to, None, None, None, None,
                               TRUE, "captured empty territory", to)]
    ELSE LET attacker_roll == s.teams[actor].military_power * r1
             defender_roll == s.teams[target].military_power * r2
         IN  IF attacker_roll > defender_roll
             THEN [remove_territory(s, target, to) EXCEPT
                      !.teams[actor].military_power = (@ * 9) \div 10,
                      !.log = AttackLog(s, actor, target, from, to, r1, r2, attacker_roll,
                                        defender_roll, TRUE, "defeated", to)]
             ELSE [s EXCEPT
                      !.teams[actor].military_power = (@ * 8) \div 10,
                      !.log = AttackLog(s, actor, target, from, to, r1, r2, attacker_roll,
                                        defender_roll, FALSE, "attack failed", None)]

\* AttackAction.execute; r1 and r2 are the two random.uniform(0, 5) draws.
AttackExecute(s, actor, target, from, to, r1, r2) ==
    IF ~AttackIsValid(s, actor, target, from, to)
    THEN [s EXCEPT !.log = AttackLog(s, actor, target, from, to, None, None, None, None,
                                     FALSE, "Invalid attack", None)]
    ELSE IF target = None
    THEN [add_territory(s, actor, to) EXCEPT
             !.log = AttackLog(s, actor, target, from, to, None, None, None, None,
                               TRUE, "captured empty territory", to)]
    ELSE LET attacker_roll == s.teams[actor].military_power * r1
             defender_roll == s.teams[target].military_power * r2
         IN  IF attacker_roll > defender_roll
             THEN [add_territory(remove_territory(s, target, to), actor, to) EXCEPT
                      !.teams[actor].military_power = (@ * 9) \div 10,
                      !.log = AttackLog(s, actor, target, from, to, r1, r2, attacker_roll,
                                        defender_roll, TRUE, "defeated", to)]
             ELSE [s EXCEPT
                      !.teams[actor].military_power = (@ * 8) \div 10,
                      !.log = AttackLog(s, actor, target, from, to, r1, r2, attacker_roll,
                                        defender_roll, FALSE, "attack failed", None)]

\* ------------------------------------------------ actions/negotiate.py
\* The count of the actor's territories that touch the target, each once.
count_bordering_territories(s, actor, target) ==
    IF target = None THEN 0
    ELSE SumUpTo([t \in Ids |-> IF /\ s.teams[actor].territories[t] > 0
                                   /\ \E u \in get_neighbors(t) : s.owner[u] = target
                                THEN 1 ELSE 0],
                 Cols * Rows - 1)

\* NegotiateAction.count_shared_borders (also Game._count_shared_borders_with
\* and AIController._count_shared_borders_with, the same loop)
count_shared_borders(s, actor, target) ==
    IF target = None THEN 0
    ELSE SumUpTo([t \in Ids |-> s.teams[actor].territories[t]
                     * Cardinality({u \in get_neighbors(t) : s.owner[u] = target})],
                 Cols * Rows - 1)

\* is_valid that asks for more than the minimum of shared borders.
NegotiateIsValid_above_minimum(s, actor, target) ==
    /\ target # None
    /\ actor # target
    /\ ~is_allied_with(s, actor, target)
    /\ count_shared_borders(s, actor, target) > ALLIANCE_MIN_SHARED_BORDERS

\* NegotiateAction.is_valid
NegotiateIsValid(s, actor, target) ==
    /\ target # None
    /\ actor # target
    /\ ~is_allied_with(s, actor, target)
    /\ count_shared_borders(s, actor, target) >= ALLIANCE_MIN_SHARED_BORDERS

ActionLog(name, actor, target, ok, msg) ==
    [name |-> name, actor |-> actor, target |-> target, success |-> ok,
     message |-> msg, territory_changed |-> None]

\* execute of an offer that is filed with the actor instead of the target.
NegotiateExecute_files_with_actor(s, actor, target) ==
    IF ~NegotiateIsValid(s, actor, target)
    THEN [s EXCEPT !.log = ActionLog("Negotiate", actor, target, FALSE,
            IF count_shared_borders(s, actor, target) < ALLIANCE_MIN_SHARED_BORDERS
            THEN "Need shared borders" ELSE "Invalid negotiation")]
    ELSE [add_pending_offer_from(s, actor, target) EXCEPT
            !.log = ActionLog("Negotiate", actor, target, TRUE, "offers alliance")]

\* NegotiateAction.execute
NegotiateExecute(s, actor, target) ==
    IF ~NegotiateIsValid(s, actor, target)
    THEN [s EXCEPT !.log = ActionLog("Negotiate", actor, target, FALSE,
            IF count_shared_borders(s, actor, target) < ALLIANCE_MIN_SHARED_BORDERS
            THEN "Need shared borders" ELSE "Invalid negotiation")]
    ELSE [add_pending_offer_from(s, target, actor) EXCEPT
            !.log = ActionLog("Negotiate", actor, target, TRUE, "offers alliance")]

\* is_valid that accepts any named target, offer or not.
AcceptIsValid_any_target(s, actor, target) == target # None

\* AcceptAllianceAction.is_valid
AcceptIsValid(s, actor, target) ==
    target # None /\ has_pending_offer_from(s, actor, target)

\* AcceptAllianceAction.execute
AcceptExecute(s, actor, target) ==
    IF ~AcceptIsValid(s, actor, target)
    THEN [s EXCEPT !.log = ActionLog("Accept Alliance", actor, target, FALSE,
                                     "No pending offer to accept")]
    ELSE [form_alliance(clear_pending_offer_from(s, actor, target),
                        actor, target, ALLIANCE_DURATION) EXCEPT
            !.log = ActionLog("Accept Alliance", actor, target, TRUE, "allied")]

\* DeclineAllianceAction.is_valid
DeclineIsValid(s, actor, target) ==
    target # None /\ has_pending_offer_from(s, actor, target)

\* execute of a decline that leaves the offer where it is.
DeclineExecute_keeps_offer(s, actor, target) ==
    IF ~DeclineIsValid(s, actor, target)
    THEN [s EXCEPT !.log = ActionLog("Decline Alliance", actor, target, FALSE,
                                     "No pending offer to decline")]
    ELSE [s EXCEPT
            !.log = ActionLog("Decline Alliance", actor, target, TRUE, "declined")]

\* DeclineAllianceAction.execute
DeclineExecute(s, actor, target) ==
    IF ~DeclineIsValid(s, actor, target)
    THEN [s EXCEPT !.log = ActionLog("Decline Alliance", actor, target, FALSE,
                                     "No pending offer to decline")]
    ELSE [clear_pending_offer_from(s, actor, target) EXCEPT
            !.log = ActionLog("Decline Alliance", actor, target, TRUE, "declined")]

\* ----------------------------------------------------- ai/controller.py
NoAction == [name |-> "None"]
AttackAction(actor, target, from, to) ==
    [name |-> "Attack", actor |-> actor, target |-> target, from |-> from, to |-> to]
NegotiateAction(actor, target) == [name |-> "Negotiate", actor |-> actor, target |-> target]
AcceptAllianceAction(actor, target) ==
    [name |-> "Accept Alliance", actor |-> actor, target |-> target]
DeclineAllianceAction(actor, target) ==
    [name |-> "Decline Alliance", actor |-> actor, target |-> target]

\* The numbers of purchases of one AI turn that roll "happiness" which the
\* model explores, out of n purchases: none, or all of them.
HappinessRolls(n) == {0, n}

\* The spending that makes one purchase and leaves the loop.
decide_spending_once(s, f, k) ==
    IF s.teams[f].resources >= RESOURCE_SPEND_INCREMENT * Unit
    THEN IF k > 0
         THEN spend_on_happiness(s, f, RESOURCE_SPEND_INCREMENT * Unit)
         ELSE spend_on_military(s, f, RESOURCE_SPEND_INCREMENT * Unit)
    ELSE s

\* AIController._decide_spending: the while loop; the first k purchases roll
\* random.random() < happiness_ratio, the others do not.
RECURSIVE decide_spending(_, _, _)
decide_spending(s, f, k) ==
    IF s.teams[f].resources >= RESOURCE_SPEND_INCREMENT * Unit
    THEN IF k > 0
         THEN decide_spending(
                  spend_on_happiness(s, f, RESOURCE_SPEND_INCREMENT * Unit), f, k - 1)
         ELSE decide_spending(
                  spend_on_military(s, f, RESOURCE_SPEND_INCREMENT * Unit), f, 0)
    ELSE s

\* len(self.team.alliances)
alliance_count(s, f) == Cardinality({g \in Teams : s.teams[f].alliances[g] # None})

\* AIController._shares_border_with
shares_border_with(s, f, g) ==
    \E t \in Ids : s.teams[f].territories[t] > 0
                   /\ \E u \in get_neighbors(t) : s.owner[u] = g

\* _should_accept_alliance without the happiness floor.
should_accept_alliance_no_floor(s, f, offering) ==
    IF alliance_count(s, f) >= 2 THEN {FALSE}
    ELSE {TRUE, FALSE}

\* AIController._should_accept_alliance: the answers the random draw allows.
\* The acceptance probability min(base_acceptance, 0.9) lies in [0.35, 0.9].
should_accept_alliance(s, f, offering) ==
    IF alliance_count(s, f) >= 2 THEN {FALSE}
    ELSE IF s.teams[f].happiness < 10 * Unit THEN {FALSE}
    ELSE {TRUE, FALSE}

\* AIController._handle_pending_alliance_offers: the first pending offer.
handle_pending_alliance_offers(s, f) ==
    IF s.teams[f].pending_alliance_offers = <<>> THEN {NoAction}
    ELSE LET offering == Head(s.teams[f].pending_alliance_offers)
         IN  {IF b THEN AcceptAllianceAction(f, offering)
                   ELSE DeclineAllianceAction(f, offering) :
              b \in should_accept_alliance(s, f, offering)}

\* AIController._get_empty_adjacent_territories
get_empty_adjacent_territories(s, f) ==
    {p \in Ids \X Ids : /\ s.teams[f].territories[p[1]] > 0
                        /\ p[2] \in get_neighbors(p[1])
                        /\ s.owner[p[2]] = None}

\* AIController._should_offer_alliance: the answers the random draw allows.
\* The offer probability min(base_offer_chance, 0.5) lies in [0.1, 0.5].
should_offer_alliance(s, f, target) ==
    IF alliance_count(s, f) >= 2 THEN {FALSE}
    ELSE IF is_allied_with(s, f, target) THEN {FALSE}
    ELSE IF s.teams[f].happiness < 30 * Unit THEN {FALSE}
    ELSE IF count_shared_borders(s, f, target) < ALLIANCE_MIN_SHARED_BORDERS THEN {FALSE}
    ELSE {TRUE, FALSE}

\* AIController._consider_offering_alliance: the first candidate whose roll
\* passes; any candidate's roll may be the first to pass, or none.
consider_offering_alliance(s, f) ==
    LET potential_allies ==
            {g \in Teams : /\ g # f
                           /\ ~is_eliminated(s, g)
                           /\ ~is_allied_with(s, f, g)
                           /\ count_shared_borders(s, f, g) >= ALLIANCE_MIN_SHARED_BORDERS}
    IN  {NegotiateAction(f, g) : g \in {h \in potential_allies :
                                          TRUE \in should_offer_alliance(s, f, h)}}
        \cup {NoAction}

\* AIController.evaluate_targets
evaluate_targets(s, f) ==
    {g \in Teams : /\ g # f
                   /\ ~is_eliminated(s, g)
                   /\ ~is_allied_with(s, f, g)
                   /\ shares_border_with(s, f, g)}

\* AIController.get_attackable_territories
get_attackable_territories(s, f, target) ==
    IF is_allied_with(s, f, target) THEN {}
    ELSE {p \in Ids \X Ids : /\ s.teams[f].territories[p[1]] > 0
                             /\ p[2] \in get_neighbors(p[1])
                             /\ s.owner[p[2]] = target}

\* The decision that captures an unowned territory before it answers a
\* pending offer.
decide_after_spending_capture_first(s, f) ==
    LET responses == handle_pending_alliance_offers(s, f)
        empty_targets == get_empty_adjacent_territories(s, f)
        offers == consider_offering_alliance(s, f)
        attacks == {AttackAction(f, g, p[1], p[2]) :
                       g \in evaluate_targets(s, f),
                       p \in Ids \X Ids}
    IN  IF empty_targets # {}
        THEN {AttackAction(f, None, p[1], p[2]) : p \in empty_targets}
        ELSE IF responses # {NoAction} THEN responses
        ELSE (offers \ {NoAction})
             \cup {a \in attacks : <<a.from, a.to>> \in
                                     get_attackable_territories(s, f, a.target)}
             \cup (IF evaluate_targets(s, f) = {} THEN {NoAction} ELSE {})

\* AIController.decide_action after the spending: the actions it can return.
\* stat_priorities["military"] is the default 0.4 >= 0.3 for every team.
decide_after_spending(s, f) ==
    LET responses == handle_pending_alliance_offers(s, f)
        empty_targets == get_empty_adjacent_territories(s, f)
        offers == consider_offering_alliance(s, f)
        attacks == {AttackAction(f, g, p[1], p[2]) :
                       g \in evaluate_targets(s, f),
                       p \in Ids \X Ids} 
    IN  IF responses # {NoAction} THEN responses
        ELSE IF empty_targets # {}
        THEN {AttackAction(f, None, p[1], p[2]) : p \in empty_targets}
        ELSE (offers \ {NoAction})
             \cup {a \in attacks : <<a.from, a.to>> \in
                                     get_attackable_territories(s, f, a.target)}
             \cup (IF evaluate_targets(s, f) = {} THEN {NoAction} ELSE {})

\* AIController.decide_action: the outcomes [s: state after the spending,
\* action: the action returned].
decide_action(s, f) ==
    UNION {LET s1 == decide_spending(s, f, k)
           IN  {[s |-> s1, action |-> a] : a \in decide_after_spending(s1, f)} :
           k \in HappinessRolls(s.teams[f].resources \div (RESOURCE_SPEND_INCREMENT * Unit))}

\* ---------------------------------------------------------------- game.py
\* The search that returns start_index itself, eliminated or not.
find_next_active_team_unfiltered(s, start_index) ==
    IF start_index <= NumTeams - 1 THEN start_index ELSE None

\* Game._find_next_active_team
find_next_active_team(s, start_index) ==
    LET active == {i \in start_index .. (NumTeams - 1) : ~is_eliminated(s, i)}
    IN  IF active = {} THEN None
        ELSE CHOOSE i \in active : \A j \in active : i <= j

\* The win check that is content with all territories but one.
check_win_condition_one_short(s) ==
    LET full == {f \in Teams : territory_count(s, f) >= total_territories - 1}
    IN  IF full = {} THEN s
        ELSE [s EXCEPT !.winner = CHOOSE f \in full : \A g \in full : f <= g,
                       !.phase = "GAME_OVER"]

\* Game._check_win_condition: the first team that lists every territory.
check_win_condition(s) ==
    LET full == {f \in Teams : territory_count(s, f) = total_territories}
    IN  IF full = {} THEN s
        ELSE [s EXCEPT !.winner = CHOOSE f \in full : \A g \in full : f <= g,
                       !.phase = "GAME_OVER"]

\* Game._apply_turn_stat_changes, for the teams i .. NumTeams - 1 in order.
RECURSIVE apply_turn_stat_changes(_, _)
apply_turn_stat_changes(s, i) ==
    IF i >= NumTeams THEN s
    ELSE apply_turn_stat_changes(
             IF ~is_eliminated(s, i)
             THEN apply_happiness_decay(
                      apply_resource_growth(s, i, total_territories), i)
             ELSE s,
             i + 1)

\* Game._tick_alliances, for the teams i .. NumTeams - 1 in order.
RECURSIVE tick_all_alliances(_, _)
tick_all_alliances(s, i) ==
    IF i >= NumTeams THEN s
    ELSE tick_all_alliances(IF is_eliminated(s, i) THEN s ELSE tick_alliances(s, i),
                            i + 1)

\* The normalization that is already triggered by a stat at the threshold.
normalize_stats_if_needed_at_threshold(s) ==
    IF \E f \in Teams :
           \/ s.teams[f].resources >= STAT_NORMALIZATION_THRESHOLD * Unit
           \/ s.teams[f].happiness >= STAT_NORMALIZATION_THRESHOLD * Unit
           \/ s.teams[f].military_power >= STAT_NORMALIZATION_THRESHOLD * Unit
    THEN [s EXCEPT
            !.teams = [f \in Teams |->
                [@[f] EXCEPT
                    !.resources = @ \div STAT_NORMALIZATION_DIVISOR,
                    !.happiness = @ \div STAT_NORMALIZATION_DIVISOR,
                    !.military_power = @ \div STAT_NORMALIZATION_DIVISOR]],
            !.stat_scale_level = IF @ < NumScaleSuffixes - 1 THEN @ + 1 ELSE @]
    ELSE s

\* Game._normalize_stats_if_needed
normalize_stats_if_needed(s) ==
    IF \E f \in Teams :
           \/ s.teams[f].resources > STAT_NORMALIZATION_THRESHOLD * Unit
           \/ s.teams[f].happiness > STAT_NORMALIZATION_THRESHOLD * Unit
           \/ s.teams[f].military_power > STAT_NORMALIZATION_THRESHOLD * Unit
    THEN [s EXCEPT
            !.teams = [f \in Teams |->
                [@[f] EXCEPT
                    !.resources = @ \div STAT_NORMALIZATION_DIVISOR,
                    !.happiness = @ \div STAT_NORMALIZATION_DIVISOR,
                    !.military_power = @ \div STAT_NORMALIZATION_DIVISOR]],
            !.stat_scale_level = IF @ < NumScaleSuffixes - 1 THEN @ + 1 ELSE @]
    ELSE s

\* Game._check_pending_player_offers: the first offer the player holds.
check_pending_player_offers(s) ==
    IF s.teams[Player].pending_alliance_offers = <<>> THEN s
    ELSE [s EXCEPT !.pending_player_offer = Head(s.teams[Player].pending_alliance_offers)]

\* _start_new_turn that hands the turn to the player whether eliminated or not.
start_new_turn_always_player(s) ==
    LET s1 == normalize_stats_if_needed(
                  tick_all_alliances(apply_turn_stat_changes(s, 0), 0))
        s2 == [s1 EXCEPT !.current_turn = @ + 1,
                         !.has_captured_empty_this_turn = FALSE,
                         !.has_attacked_enemy_this_turn = FALSE,
                         !.attacked_territories_this_turn = {},
                         !.waiting_for_advance = FALSE,
                         !.negotiation_target = None]
    IN  check_pending_player_offers(
            [s2 EXCEPT !.current_team_index = 0, !.phase = "PLAYER_TURN"])

\* Game._start_new_turn
start_new_turn(s) ==
    LET s1 == normalize_stats_if_needed(
                  tick_all_alliances(apply_turn_stat_changes(s, 0), 0))
        s2 == [s1 EXCEPT !.current_turn = @ + 1,
                         !.has_captured_empty_this_turn = FALSE,
                         !.has_attacked_enemy_this_turn = FALSE,
                         !.attacked_territories_this_turn = {},
                         !.waiting_for_advance = FALSE,
                         !.negotiation_target = None]
        next_team == find_next_active_team(s2, 1)
    IN  IF ~is_eliminated(s2, Player)
        THEN check_pending_player_offers(
                 [s2 EXCEPT !.current_team_index = 0, !.phase = "PLAYER_TURN"])
        ELSE IF next_team # None
        THEN [s2 EXCEPT !.current_team_index = next_team, !.phase = "AI_TURN",
                        !.waiting_for_advance = TRUE]
        ELSE [s2 EXCEPT !.current_team_index = NumTeams]

\* _end_player_turn that hands the turn to faction 1, eliminated or not.
end_player_turn_to_first(s) ==
    [s EXCEPT !.current_team_index = 1, !.phase = "AI_TURN",
              !.waiting_for_advance = TRUE]

\* Game._end_player_turn
end_player_turn(s) ==
    LET next_team == find_next_active_team(s, 1)
    IN  IF next_team # None
        THEN [s EXCEPT !.current_team_index = next_team, !.phase = "AI_TURN",
                       !.waiting_for_advance = TRUE]
        ELSE start_new_turn(s)

\* Game._calculate_spend_amount
calculate_spend_amount(resources) ==
    IF resources < 10 * Unit THEN 0 ELSE Max(10 * Unit, resources \div 10)

\* Game._player_spend_on_happiness
player_spend_on_happiness(s) ==
    LET amount == calculate_spend_amount(s.teams[Player].resources)
    IN  IF amount > 0 THEN spend_on_happiness(s, Player, amount) ELSE s

\* Game._player_spend_on_military
player_spend_on_military(s) ==
    LET amount == calculate_spend_amount(s.teams[Player].resources)
    IN  IF amount > 0 THEN spend_on_military(s, Player, amount) ELSE s

\* The random.uniform(0, 5) draws the model explores.
RollDraws == {0, 5}

\* The pairs of random.uniform(0, 5) draws of one AttackAction.execute: drawn
\* only in combat.
Rolls(target) == IF target = None THEN {<<0, 0>>} ELSE RollDraws \X RollDraws

\* The click handler without the check that the territory was attacked
\* before in the round.
handle_territory_click_again(s, t) ==
    IF t = None THEN {s}
    ELSE IF s.selected_territory = None
    THEN IF s.owner[t] = Player THEN {[s EXCEPT !.selected_territory = t]} ELSE {s}
    ELSE IF t = s.selected_territory THEN {[s EXCEPT !.selected_territory = None]}
    ELSE IF s.owner[t] = Player THEN {[s EXCEPT !.selected_territory = t]}
    ELSE IF ~is_adjacent_to(s.selected_territory, t) THEN {s}
    ELSE IF s.has_captured_empty_this_turn THEN {s}
    ELSE IF s.owner[t] = None /\ s.has_attacked_enemy_this_turn THEN {s}
    ELSE IF s.owner[t] # None /\ is_allied_with(s, Player, s.owner[t]) THEN {s}
    ELSE IF ~AttackIsValid(s, Player, s.owner[t], s.selected_territory, t) THEN {s}
    ELSE {[AttackExecute(s, Player, s.owner[t], s.selected_territory, t, r[1], r[2])
           EXCEPT
            !.has_captured_empty_this_turn = IF s.owner[t] = None THEN TRUE ELSE @,
            !.has_attacked_enemy_this_turn = IF s.owner[t] = None THEN @ ELSE TRUE,
            !.attacked_territories_this_turn = @ \cup {t},
            !.selected_territory = None] : r \in Rolls(s.owner[t])}

\* The click handler without the check that a capture of an unowned territory
\* ended the player's attacks.
handle_territory_click_after_capture(s, t) ==
    IF t = None THEN {s}
    ELSE IF s.selected_territory = None
    THEN IF s.owner[t] = Player THEN {[s EXCEPT !.selected_territory = t]} ELSE {s}
    ELSE IF t = s.selected_territory THEN {[s EXCEPT !.selected_territory = None]}
    ELSE IF s.owner[t] = Player THEN {[s EXCEPT !.selected_territory = t]}
    ELSE IF ~is_adjacent_to(s.selected_territory, t) THEN {s}
    ELSE IF s.owner[t] = None /\ s.has_attacked_enemy_this_turn THEN {s}
    ELSE IF t \in s.attacked_territories_this_turn THEN {s}
    ELSE IF s.owner[t] # None /\ is_allied_with(s, Player, s.owner[t]) THEN {s}
    ELSE IF ~AttackIsValid(s, Player, s.owner[t], s.selected_territory, t) THEN {s}
    ELSE {[AttackExecute(s, Player, s.owner[t], s.selected_territory, t, r[1], r[2])
           EXCEPT
            !.has_captured_empty_this_turn = IF s.owner[t] = None THEN TRUE ELSE @,
            !.has_attacked_enemy_this_turn = IF s.owner[t] = None THEN @ ELSE TRUE,
            !.attacked_territories_this_turn = @ \cup {t},
            !.selected_territory = None] : r \in Rolls(s.owner[t])}

\* Game._handle_territory_click on territory t (None: a click off the map):
\* the states it can leave.
handle_territory_click(s, t) ==
    IF t = None THEN {s}
    ELSE IF s.selected_territory = None
    THEN IF s.owner[t] = Player THEN {[s EXCEPT !.selected_territory = t]} ELSE {s}
    ELSE IF t = s.selected_territory THEN {[s EXCEPT !.selected_territory = None]}
    ELSE IF s.owner[t] = Player THEN {[s EXCEPT !.selected_territory = t]}
    ELSE IF ~is_adjacent_to(s.selected_territory, t) THEN {s}
    ELSE IF s.has_captured_empty_this_turn THEN {s}
    ELSE IF s.owner[t] = None /\ s.has_attacked_enemy_this_turn THEN {s}
    ELSE IF t \in s.attacked_territories_this_turn THEN {s}
    ELSE IF s.owner[t] # None /\ is_allied_with(s, Player, s.owner[t]) THEN {s}
    ELSE IF ~AttackIsValid(s, Player, s.owner[t], s.selected_territory, t) THEN {s}
    ELSE {[AttackExecute(s, Player, s.owner[t], s.selected_territory, t, r[1], r[2])
           EXCEPT
            !.has_captured_empty_this_turn = IF s.owner[t] = None THEN TRUE ELSE @,
            !.has_attacked_enemy_this_turn = IF s.owner[t] = None THEN @ ELSE TRUE,
            !.attacked_territories_this_turn = @ \cup {t},
            !.selected_territory = None] : r \in Rolls(s.owner[t])}

\* Game._get_valid_alliance_targets, in team order.
get_valid_alliance_targets(s) ==
    SelectSeq([i \in 1 .. NumTeams |-> i - 1],
              LAMBDA g : /\ g # Player
                         /\ ~is_eliminated(s, g)
                         /\ ~is_allied_with(s, Player, g)
                         /\ count_shared_borders(s, Player, g)
                                >= ALLIANCE_MIN_SHARED_BORDERS)

\* Game._offer_alliance_to_target
offer_alliance_to_target(s) ==
    IF s.negotiation_target = None THEN s
    ELSE [(IF NegotiateIsValid(s, Player, s.negotiation_target)
           THEN NegotiateExecute(s, Player, s.negotiation_target)
           ELSE s) EXCEPT !.negotiation_target = None]

\* Game._handle_negotiate_key
handle_negotiate_key(s) ==
    LET valid_targets == get_valid_alliance_targets(s)
    IN  IF s.pending_player_offer # None THEN s
        ELSE IF valid_targets = <<>> THEN s
        ELSE IF s.negotiation_target = None
        THEN [s EXCEPT !.negotiation_target = valid_targets[1]]
        ELSE offer_alliance_to_target(s)

\* Game._cycle_negotiate_target
cycle_negotiate_target(s) ==
    LET valid_targets == get_valid_alliance_targets(s)
        at == {i \in 1 .. Len(valid_targets) : valid_targets[i] = s.negotiation_target}
    IN  IF valid_targets = <<>> THEN s
        ELSE IF s.negotiation_target = None \/ at = {}
        THEN [s EXCEPT !.negotiation_target = valid_targets[1]]
        ELSE LET current_idx == CHOOSE i \in at : \A j \in at : i <= j
             IN  [s EXCEPT !.negotiation_target =
                     valid_targets[(current_idx % Len(valid_targets)) + 1]]

\* Game._accept_pending_alliance
accept_pending_alliance(s) ==
    IF s.pending_player_offer = None THEN s
    ELSE [(IF AcceptIsValid(s, Player, s.pending_player_offer)
           THEN AcceptExecute(s, Player, s.pending_player_offer)
           ELSE s) EXCEPT !.pending_player_offer = None]

\* Game._decline_pending_alliance
decline_pending_alliance(s) ==
    IF s.pending_player_offer = None THEN s
    ELSE [(IF DeclineIsValid(s, Player, s.pending_player_offer)
           THEN DeclineExecute(s, Player, s.pending_player_offer)
           ELSE s) EXCEPT !.pending_player_offer = None]

\* Game._process_ai_turn, lines 621-643: the action the controller returned is
\* executed when it is valid.
execute_ai_action(s, a, r1, r2) ==
    IF a.name = "Attack"
    THEN IF AttackIsValid(s, a.actor, a.target, a.from, a.to)
         THEN AttackExecute(s, a.actor, a.target, a.from, a.to, r1, r2) ELSE s
    ELSE IF a.name = "Negotiate"
    THEN IF NegotiateIsValid(s, a.actor, a.target)
         THEN NegotiateExecute(s, a.actor, a.target) ELSE s
    ELSE IF a.name = "Accept Alliance"
    THEN IF AcceptIsValid(s, a.actor, a.target)
         THEN AcceptExecute(s, a.actor, a.target) ELSE s
    ELSE IF a.name = "Decline Alliance"
    THEN IF DeclineIsValid(s, a.actor, a.target)
         THEN DeclineExecute(s, a.actor, a.target) ELSE s
    ELSE s

\* The move to the next team that searches from the first AI faction again.
move_to_next_team_from_first(s, wait) ==
    LET next_team == find_next_active_team(s, 1)
    IN  IF next_team # None
        THEN [s EXCEPT !.current_team_index = next_team,
                       !.waiting_for_advance = IF wait THEN TRUE ELSE @]
        ELSE start_new_turn(s)

\* The move to the next team that never asks to wait for the advance signal.
move_to_next_team_no_wait(s, wait) ==
    LET next_team == find_next_active_team(s, s.current_team_index + 1)
    IN  IF next_team # None
        THEN [s EXCEPT !.current_team_index = next_team]
        ELSE start_new_turn(s)

\* Game._process_ai_turn, lines 603-619 and 645-652: move to the next active
\* team, or start a new turn when there is none.
move_to_next_team(s, wait) ==
    LET next_team == find_next_active_team(s, s.current_team_index + 1)
    IN  IF next_team # None
        THEN [s EXCEPT !.current_team_index = next_team,
                       !.waiting_for_advance = IF wait THEN TRUE ELSE @]
        ELSE start_new_turn(s)

\* Game._process_ai_turn: the states it can leave.
process_ai_turn(s) ==
    IF s.waiting_for_advance THEN {s}
    ELSE IF s.current_team_index >= NumTeams THEN {start_new_turn(s)}
    ELSE IF is_eliminated(s, s.current_team_index) THEN {move_to_next_team(s, FALSE)}
    ELSE IF s.current_team_index = Player THEN {move_to_next_team(s, FALSE)}
    ELSE UNION {{move_to_next_team(execute_ai_action(o.s, o.action, r[1], r[2]), TRUE) :
                    r \in IF o.action.name = "Attack" THEN Rolls(o.action.target)
                                                     ELSE {<<0, 0>>}} :
                o \in decide_action(s, s.current_team_index)}

\* Game._check_space_hold_for_eliminated_player; held: the keyboard poll and
\* the hold timer (_space_hold_start) say SPACE has been down for 0.3 s.
check_space_hold_for_eliminated_player(s, held) ==
    IF /\ is_eliminated(s, Player)
       /\ held
       /\ s.waiting_for_advance
    THEN [s EXCEPT !.waiting_for_advance = FALSE]
    ELSE s

\* Game._update_key_holds; key: the spend key that the keyboard poll and the
\* hold timers (_key_hold_start, _key_last_trigger) say repeats now, if any.
update_key_holds(s, key) ==
    IF key \in {"h", "m"}
    THEN [(IF key = "h" THEN player_spend_on_happiness(s)
                        ELSE player_spend_on_military(s))
          EXCEPT !.spend_presses = @ + 1]
    ELSE s

\* Game.update: the states it can leave.  No code sets phase to BETWEEN_TURNS,
\* so that branch is never taken.
update(s) ==
    IF s.phase = "GAME_OVER" THEN {[s EXCEPT !.over_calls = @ + 1]}
    ELSE LET s1 == check_win_condition(s)
         IN  IF s1.phase = "GAME_OVER" THEN {s1}
             ELSE IF s1.phase = "PLAYER_TURN"
             THEN {update_key_holds(s1, key) : key \in {"none", "h", "m"}}
             ELSE IF s1.phase = "AI_TURN"
             THEN UNION {process_ai_turn(check_space_hold_for_eliminated_player(s1, held)) :
                            held \in BOOLEAN}
             ELSE {start_new_turn(s1)}

\* Game._handle_player_input on a KEYDOWN of key.  ESCAPE also clears
\* Game.running, which ends the loop and is not part of the state here.
handle_player_keydown(s, key) ==
    IF key = "SPACE"
    THEN end_player_turn([s EXCEPT !.selected_territory = None,
                                   !.negotiation_target = None])
    ELSE IF key = "h"
    THEN [player_spend_on_happiness(s) EXCEPT !.spend_presses = @ + 1]
    ELSE IF key = "m"
    THEN [player_spend_on_military(s) EXCEPT !.spend_presses = @ + 1]
    ELSE IF key = "n" THEN handle_negotiate_key(s)
    ELSE IF key = "TAB" THEN cycle_negotiate_target(s)
    ELSE IF key = "y"
    THEN IF s.pending_player_offer # None THEN accept_pending_alliance(s) ELSE s
    ELSE IF key = "x"
    THEN IF s.pending_player_offer # None THEN decline_pending_alliance(s) ELSE s
    ELSE IF key = "ESCAPE"
    THEN IF s.negotiation_target # None THEN [s EXCEPT !.negotiation_target = None]
         ELSE s
    ELSE s

\* Game._handle_player_input on a KEYUP of key: only the hold timers change.
handle_player_keyup(s, key) == s

\* _handle_ai_phase_input that takes no notice of SPACE.
handle_ai_phase_input_ignores_space(s, down, key) == s

\* Game._handle_ai_phase_input on a KEYDOWN or KEYUP of key.
handle_ai_phase_input(s, down, key) ==
    IF down /\ key = "SPACE"
    THEN [s EXCEPT !.waiting_for_advance = FALSE]
    ELSE s

\* Key handling that takes every phase but AI_TURN for the player's turn.
handle_key_event_any_phase(s, down, key) ==
    IF s.phase = "AI_TURN" THEN handle_ai_phase_input(s, down, key)
    ELSE IF down THEN handle_player_keydown(s, key) ELSE handle_player_keyup(s, key)

\* Game.handle_events, for one key event.
handle_key_event(s, down, key) ==
    IF s.phase = "PLAYER_TURN"
    THEN IF down THEN handle_player_keydown(s, key) ELSE handle_player_keyup(s, key)
    ELSE IF s.phase = "AI_TURN" THEN handle_ai_phase_input(s, down, key)
    ELSE [s EXCEPT !.over_calls = @ + 1]

\* Game.handle_events, for one left click on territory t (None: off the map).
handle_click_event(s, t) ==
    IF s.phase = "PLAYER_TURN" THEN handle_territory_click(s, t)
    ELSE IF s.phase = "AI_TURN" THEN {s}
    ELSE {[s EXCEPT !.over_calls = @ + 1]}

\* --------------------------------------- GameMap.assign_clustered_start
Neighbors4(p) ==
    <<<<p[1] - 1, p[2]>>, <<p[1] + 1, p[2]>>, <<p[1], p[2] - 1>>, <<p[1], p[2] + 1>>>>

\* random.shuffle of a list of four
Shuffles4(q) == {[i \in 1 .. 4 |-> q[p[i]]] : p \in Permutations(1 .. 4)}

\* GameMap._can_grow_cluster: the loop from (to_check, checked, count).
RECURSIVE can_grow_cluster(_, _, _, _, _)
can_grow_cluster(to_check, checked, count, taken, size) ==
    IF to_check = <<>> \/ count >= size THEN count >= size
    ELSE LET p == Head(to_check)
             t == get_territory_at(p[1], p[2])
         IN  IF p \in checked
             THEN can_grow_cluster(Tail(to_check), checked, count, taken, size)
             ELSE IF t # None /\ t \notin taken
             THEN can_grow_cluster(Tail(to_check) \o Neighbors4(p), checked \cup {p},
                                   count + 1, taken, size)
             ELSE can_grow_cluster(Tail(to_check), checked \cup {p}, count, taken, size)

\* GameMap._find_random_start: the positions it can return (none: it returns None).
find_random_start(taken, cluster_size) ==
    {t \in Ids \ taken :
        can_grow_cluster(<<<<grid_x(t), grid_y(t)>>>>, {}, 0, taken, cluster_size)}

\* GameMap._assign_cluster: the loop from (to_check, checked, assigned_ids);
\* own is Territory.owner on entry.  The sets of ids it can assign.
RECURSIVE assign_cluster(_, _, _, _, _, _)
assign_cluster(to_check, checked, assigned_ids, taken, count, own) ==
    IF to_check = <<>> \/ Cardinality(assigned_ids) >= count THEN {assigned_ids}
    ELSE LET p == Head(to_check)
             t == get_territory_at(p[1], p[2])
         IN  IF p \in checked
             THEN assign_cluster(Tail(to_check), checked, assigned_ids, taken, count, own)
             ELSE IF t # None /\ t \notin taken /\ own[t] = None /\ t \notin assigned_ids
             THEN UNION {assign_cluster(Tail(to_check) \o sh, checked \cup {p},
                                        assigned_ids \cup {t}, taken, count, own) :
                            sh \in Shuffles4(Neighbors4(p))}
             ELSE assign_cluster(Tail(to_check), checked \cup {p}, assigned_ids,
                                 taken, count, own)

\* team.add_territory for every id of a set (the order does not show).
RECURSIVE add_territories(_, _, _)
add_territories(s, f, ids) ==
    IF ids = {} THEN s
    ELSE LET t == CHOOSE t \in ids : TRUE
         IN  add_territories(add_territory(s, f, t), f, ids \ {t})

\* GameMap.assign_clustered_start for the teams i .. NumTeams - 1: the states
\* it can leave.
RECURSIVE assign_clustered_start(_, _, _)
assign_clustered_start(s, i, taken) ==
    IF i >= NumTeams THEN {s}
    ELSE LET starts == find_random_start(taken, TerritoriesPerTeam)
         IN  IF starts = {} THEN assign_clustered_start(s, i + 1, taken)
             ELSE UNION {UNION {assign_clustered_start(add_territories(s, i, a), i + 1,
                                                       taken \cup a) :
                                   a \in assign_cluster(<<<<grid_x(st), grid_y(st)>>>>, {},
                                                        {}, taken, TerritoriesPerTeam,
                                                        s.owner)} :
                            st \in starts}

\* ------------------------------------------------------------ Game.__init__
InitState ==
    [teams |-> [f \in Teams |-> NewTeam(STARTING_RESOURCES * Unit,
                                        STARTING_HAPPINESS * Unit,
                                        STARTING_MILITARY * Unit)],
     owner |-> [t \in Ids |-> None], phase |-> "PLAYER_TURN",
     current_turn |-> 1, current_team_index |-> 0, winner |-> None,
     waiting_for_advance |-> FALSE, selected_territory |-> None,
     has_captured_empty_this_turn |-> FALSE, has_attacked_enemy_this_turn |-> FALSE,
     attacked_territories_this_turn |-> {}, negotiation_target |-> None,
     pending_player_offer |-> None, stat_scale_level |-> 0, log |-> NoLog,
     spend_presses |-> 0, over_calls |-> 0, executed |-> 0]

\* The starts explored: those that give the player territory 0 (on a grid
\* every start is one of these up to the grid's reflections, for a cluster of
\* one).
StartStates == {s \in assign_clustered_start(InitState, 0, {}) : s.owner[0] = Player}

Init ==
    \E s \in StartStates :
        /\ teams = s.teams
        /\ owner = s.owner
        /\ phase = s.phase
        /\ current_turn = s.current_turn
        /\ current_team_index = s.current_team_index
        /\ winner = s.winner
        /\ waiting_for_advance = s.waiting_for_advance
        /\ selected_territory = s.selected_territory
        /\ has_captured_empty_this_turn = s.has_captured_empty_this_turn
        /\ has_attacked_enemy_this_turn = s.has_attacked_enemy_this_turn
        /\ attacked_territories_this_turn = s.attacked_territories_this_turn
        /\ negotiation_target = s.negotiation_target
        /\ pending_player_offer = s.pending_player_offer
        /\ stat_scale_level = s.stat_scale_level
        /\ log = s.log
        /\ spend_presses = s.spend_presses
        /\ over_calls = s.over_calls
        /\ executed = s.executed
        /\ before = NoBefore

\* --------------------------------------------------------------- steps
\* A step starts with no action logged.
Begin == [State EXCEPT !.log = NoLog]

\* One call of Game.update.
Update == \E s \in update(Begin) : Set(s)

\* One KEYDOWN event of handle_events.
KeyDown ==
    \E key \in {"SPACE", "h", "m", "n", "TAB", "y", "x", "ESCAPE"} :
        Set(handle_key_event(Begin, TRUE, key))

\* One KEYUP event of handle_events.
KeyUp == \E key \in {"SPACE", "h", "m"} : Set(handle_key_event(Begin, FALSE, key))

\* One MOUSEBUTTONDOWN event of handle_events.
Click == \E t \in Ids \cup {None} : \E s \in handle_click_event(Begin, t) : Set(s)

\* The behaviours explored: every input and every draw, through round MaxTurn.
Explored ==
    /\ current_turn <= MaxTurn
    /\ spend_presses' <= MaxSpendPresses
    /\ over_calls' <= MaxOverCalls

Next ==
    \/ Update /\ Explored
    \/ KeyDown /\ Explored
    \/ KeyUp /\ Explored
    \/ Click /\ Explored

Spec == Init /\ [][Next]_vars

\* The behaviours explored through round MaxWarTurn (MaxAutoTurn once the
\* player is eliminated): the player only clicks and ends the turn, no AI roll
\* buys happiness and no AI roll offers an alliance. In a later round only the
\* step that ends the game, and the steps after its end, are explored.
War ==
    /\ \/ current_turn <= (IF is_eliminated(State, Player) THEN MaxAutoTurn
                                                             ELSE MaxWarTurn)
       \/ phase' = "GAME_OVER"
    /\ over_calls' <= MaxOverCalls
    /\ spend_presses' = 0
    /\ negotiation_target' = None
    /\ \A f \in Teams : /\ teams'[f].pending_alliance_offers = <<>>
                        /\ teams'[f].happiness <= teams[f].happiness

NextWar ==
    \/ Update /\ War
    \/ KeyDown /\ War
    \/ KeyUp /\ War
    \/ Click /\ War

SpecWar == Init /\ [][NextWar]_vars

\* Rounds explored by SpecPact.
MaxPactTurn == 3

\* The behaviours explored through round MaxPactTurn: no faction is attacked
\* (unowned territory may be captured), the player buys nothing and no AI
\* roll buys happiness.
Pact ==
    /\ current_turn <= MaxPactTurn
    /\ over_calls' <= MaxOverCalls
    /\ spend_presses' = 0
    /\ log'.name = "Attack" => log'.target = None
    /\ \A f \in Teams : teams'[f].happiness <= teams[f].happiness

NextPact ==
    \/ Update /\ Pact
    \/ KeyDown /\ Pact
    \/ KeyUp /\ Pact
    \/ Click /\ Pact

SpecPact == Init /\ [][NextPact]_vars

\* Rounds explored by SpecLive.
MaxLiveTurn == 1

\* One KEYDOWN event of SPACE: the end of the player's turn, or the advance
\* signal of AI_TURN.
SpaceDown == Set(handle_key_event(Begin, TRUE, "SPACE"))

\* The behaviours explored through round MaxLiveTurn: the player only ends
\* the turn and gives the advance signal, and no spend key is held.
Live ==
    /\ current_turn <= MaxLiveTurn
    /\ over_calls' <= MaxOverCalls
    /\ spend_presses' = 0

NextLive ==
    \/ Update /\ Live
    \/ SpaceDown /\ Live

\* ENABLED <<Update /\ Live>>_vars, computed from update: some outcome of the
\* call is explored and differs from the state.
UpdateEnabled ==
    \E s \in update(Begin) :
        /\ s # State
        /\ current_turn <= MaxLiveTurn
        /\ s.over_calls <= MaxOverCalls
        /\ s.spend_presses = 0

\* Game.run calls update in every frame, and the SPACE key keeps being
\* pressed: neither step is put off forever.  The first condition is
\* WF_vars(Update /\ Live) with its ENABLED written as UpdateEnabled.
SpecLive ==
    /\ Init
    /\ [][NextLive]_vars
    /\ ([]<>~UpdateEnabled \/ []<><<Update /\ Live>>_vars)
    /\ WF_vars(SpaceDown /\ Live)

\* ------------------------------------------ AttackAction on its own
\* The worlds an AttackAction is tried in: a start of the game as it is, with
\* one team out of military power, with one alliance formed, or with one more
\* territory given to a team.
AttackWorlds ==
    LET grown == {add_territory(x[1], x[2], x[3]) :
                     x \in {y \in StartStates \X Teams \X Ids :
                               y[1].owner[y[3]] = None}}
        weak(s) == {[s EXCEPT !.teams[f].military_power = 0] : f \in Teams}
        pairs == {p \in Teams \X Teams : p[1] < p[2]}
        allied(s) == {form_alliance(s, p[1], p[2], ALLIANCE_DURATION) : p \in pairs}
    IN  StartStates \cup grown
            \cup UNION {weak(s) \cup allied(s) : s \in StartStates}

InitAttack ==
    \E s \in AttackWorlds :
        /\ teams = s.teams
        /\ owner = s.owner
        /\ phase = s.phase
        /\ current_turn = s.current_turn
        /\ current_team_index = s.current_team_index
        /\ winner = s.winner
        /\ waiting_for_advance = s.waiting_for_advance
        /\ selected_territory = s.selected_territory
        /\ has_captured_empty_this_turn = s.has_captured_empty_this_turn
        /\ has_attacked_enemy_this_turn = s.has_attacked_enemy_this_turn
        /\ attacked_territories_this_turn = s.attacked_territories_this_turn
        /\ negotiation_target = s.negotiation_target
        /\ pending_player_offer = s.pending_player_offer
        /\ stat_scale_level = s.stat_scale_level
        /\ log = s.log
        /\ spend_presses = s.spend_presses
        /\ over_calls = s.over_calls
        /\ executed = s.executed
        /\ before = NoBefore

\* AttackAction(actor, target, from, to).execute(), once.
ExecuteAttack ==
    /\ log = NoLog
    /\ \E actor \in Teams, target \in TeamOrNone, from \in Ids, to \in Ids :
         \E r \in Rolls(target) :
            Call(AttackExecute(State, actor, target, from, to, r[1], r[2]))

NextAttack == ExecuteAttack

SpecAttack == InitAttack /\ [][NextAttack]_vars

\* ------------------------------------ the alliance actions on their own
\* Actions executed per behaviour of SpecDiplomacy.
MaxExecuted == 3
\* The longest duration an alliance of a drawn world is formed with.
MaxDuration == 3

\* The worlds the alliance actions are tried in: a start of the game as it is,
\* with the teams' happiness at 90, 60, 30, ..., or with one alliance formed
\* for 1 .. MaxDuration turns.
DiplomacyWorlds ==
    LET pairs == {p \in Teams \X Teams : p[1] < p[2]}
        mood(s) == [s EXCEPT !.teams =
                      [f \in Teams |->
                          [@[f] EXCEPT !.happiness = (90 - 30 * (f % 3)) * Unit]]]
        allied(s) == {form_alliance(s, p[1], p[2], d) :
                         p \in pairs, d \in 1 .. MaxDuration}
    IN  StartStates \cup UNION {{mood(s)} \cup allied(s) : s \in StartStates}

InitDiplomacy ==
    \E s \in DiplomacyWorlds :
        /\ teams = s.teams
        /\ owner = s.owner
        /\ phase = s.phase
        /\ current_turn = s.current_turn
        /\ current_team_index = s.current_team_index
        /\ winner = s.winner
        /\ waiting_for_advance = s.waiting_for_advance
        /\ selected_territory = s.selected_territory
        /\ has_captured_empty_this_turn = s.has_captured_empty_this_turn
        /\ has_attacked_enemy_this_turn = s.has_attacked_enemy_this_turn
        /\ attacked_territories_this_turn = s.attacked_territories_this_turn
        /\ negotiation_target = s.negotiation_target
        /\ pending_player_offer = s.pending_player_offer
        /\ stat_scale_level = s.stat_scale_level
        /\ log = s.log
        /\ spend_presses = s.spend_presses
        /\ over_calls = s.over_calls
        /\ executed = s.executed
        /\ before = NoBefore

\* One more action executed on its own.
Executed(s) == [s EXCEPT !.executed = @ + 1]

\* NegotiateAction(actor, target, game_map).execute()
ExecuteNegotiate ==
    /\ executed < MaxExecuted
    /\ \E actor \in Teams, target \in TeamOrNone :
          Call(Executed(NegotiateExecute(Begin, actor, target)))

\* AcceptAllianceAction(actor, target).execute()
ExecuteAccept ==
    /\ executed < MaxExecuted
    /\ \E actor \in Teams, target \in TeamOrNone :
          Call(Executed(AcceptExecute(Begin, actor, target)))

\* DeclineAllianceAction(actor, target).execute()
ExecuteDecline ==
    /\ executed < MaxExecuted
    /\ \E actor \in Teams, target \in TeamOrNone :
          Call(Executed(DeclineExecute(Begin, actor, target)))

\* team.tick_alliances(), with the list it returned
TickLog(s, f) == [name |-> "Tick", actor |-> f, expired |-> tick_expired(s, f)]

ExecuteTick ==
    /\ executed < MaxExecuted
    /\ \E f \in Teams :
          Call(Executed([tick_alliances(Begin, f) EXCEPT !.log = TickLog(Begin, f)]))

NextDiplomacy ==
    \/ ExecuteNegotiate
    \/ ExecuteAccept
    \/ ExecuteDecline
    \/ ExecuteTick

SpecDiplomacy == InitDiplomacy /\ [][NextDiplomacy]_vars

\* ------------------------------------------------- GameMap on its own
MaxCols == 3
MaxRows == 3

\* GameMap._create_grid with a right neighbor for the last column too.
grid_neighbor_ids_past_last_column(cols, rows, x, y) ==
    (IF y > 0 THEN <<(y - 1) * cols + x>> ELSE <<>>)
    \o (IF y < rows - 1 THEN <<(y + 1) * cols + x>> ELSE <<>>)
    \o (IF x > 0 THEN <<y * cols + (x - 1)>> ELSE <<>>)
    \o <<y * cols + (x + 1)>>

\* GameMap._create_grid: the neighbor_ids of the territory at (x, y) of a
\* cols x rows grid, in the order up, down, left, right.
grid_neighbor_ids(cols, rows, x, y) ==
    (IF y > 0 THEN <<(y - 1) * cols + x>> ELSE <<>>)
    \o (IF y < rows - 1 THEN <<(y + 1) * cols + x>> ELSE <<>>)
    \o (IF x > 0 THEN <<y * cols + (x - 1)>> ELSE <<>>)
    \o (IF x < cols - 1 THEN <<y * cols + (x + 1)>> ELSE <<>>)

\* GameMap._create_grid: the dict territory_id -> Territory.
create_grid(cols, rows) ==
    [t \in {y * cols + x : x \in 0 .. (cols - 1), y \in 0 .. (rows - 1)} |->
        LET c == CHOOSE c \in (0 .. (cols - 1)) \X (0 .. (rows - 1)) :
                     c[2] * cols + c[1] = t
        IN  [id |-> t, grid_x |-> c[1], grid_y |-> c[2],
             neighbor_ids |-> grid_neighbor_ids(cols, rows, c[1], c[2])]]

\* GameMap.__init__
GameMap(cols, rows) ==
    [cols |-> cols, rows |-> rows, territories |-> create_grid(cols, rows)]

\* GameMap.get_territory_at on map m: the id of the territory, or None.
map_get_territory_at(m, x, y) ==
    IF 0 <= x /\ x < m.cols /\ 0 <= y /\ y < m.rows
    THEN m.territories[y * m.cols + x].id
    ELSE None

\* GameMap.get_neighbors on map m: the ids of the territories returned.
map_get_neighbors(m, id) ==
    IF id \notin DOMAIN m.territories THEN <<>>
    ELSE SelectSeq(m.territories[id].neighbor_ids,
                   LAMBDA nid : nid \in DOMAIN m.territories)

InitMap ==
    /\ teams = InitState.teams
    /\ owner = InitState.owner
    /\ phase = InitState.phase
    /\ current_turn = InitState.current_turn
    /\ current_team_index = InitState.current_team_index
    /\ winner = InitState.winner
    /\ waiting_for_advance = InitState.waiting_for_advance
    /\ selected_territory = InitState.selected_territory
    /\ has_captured_empty_this_turn = InitState.has_captured_empty_this_turn
    /\ has_attacked_enemy_this_turn = InitState.has_attacked_enemy_this_turn
    /\ attacked_territories_this_turn = InitState.attacked_territories_this_turn
    /\ negotiation_target = InitState.negotiation_target
    /\ pending_player_offer = InitState.pending_player_offer
    /\ stat_scale_level = InitState.stat_scale_level
    /\ log = InitState.log
    /\ spend_presses = InitState.spend_presses
    /\ over_calls = InitState.over_calls
    /\ executed = InitState.executed
    /\ before = NoBefore

\* GameMap(cols, rows), built once.
NewGameMap ==
    /\ log = NoLog
    /\ \E cols \in 1 .. MaxCols, rows \in 1 .. MaxRows :
          Set([State EXCEPT !.log = [name |-> "GameMap", map |-> GameMap(cols, rows)]])

\* game_map.get_territory_at(x, y) on the map built.
GetTerritoryAt ==
    /\ log # NoLog
    /\ \E x \in (0 - 1) .. MaxCols, y \in (0 - 1) .. MaxRows :
          Set([State EXCEPT !.log =
                  [name |-> "get_territory_at", map |-> log.map, x |-> x, y |-> y,
                   result |-> map_get_territory_at(log.map, x, y)]])

\* game_map.get_neighbors(territory_id) on the map built.
GetNeighbors ==
    /\ log # NoLog
    /\ \E id \in (0 - 1) .. (MaxCols * MaxRows) :
          Set([State EXCEPT !.log =
                  [name |-> "get_neighbors", map |-> log.map, id |-> id,
                   result |-> map_get_neighbors(log.map, id)]])

\* ------------------------------- GameMap.assign_clustered_start on its own
MaxClusterTeams == 2
MaxClusterSize == 3

\* _can_grow_cluster that also counts the cells already taken.
RECURSIVE map_can_grow_cluster_counts_taken(_, _, _, _, _, _)
map_can_grow_cluster_counts_taken(m, to_check, checked, count, taken, size) ==
    IF to_check = <<>> \/ count >= size THEN count >= size
    ELSE LET p == Head(to_check)
             t == map_get_territory_at(m, p[1], p[2])
         IN  IF p \in checked
             THEN map_can_grow_cluster_counts_taken(m, Tail(to_check), checked, count,
                                                    taken, size)
             ELSE IF t # None
             THEN map_can_grow_cluster_counts_taken(m, Tail(to_check) \o Neighbors4(p),
                                                    checked \cup {p}, count + 1, taken, size)
             ELSE map_can_grow_cluster_counts_taken(m, Tail(to_check), checked \cup {p},
                                                    count, taken, size)

\* GameMap._can_grow_cluster on map m: the loop from (to_check, checked, count).
RECURSIVE map_can_grow_cluster(_, _, _, _, _, _)
map_can_grow_cluster(m, to_check, checked, count, taken, size) ==
    IF to_check = <<>> \/ count >= size THEN count >= size
    ELSE LET p == Head(to_check)
             t == map_get_territory_at(m, p[1], p[2])
         IN  IF p \in checked
             THEN map_can_grow_cluster(m, Tail(to_check), checked, count, taken, size)
             ELSE IF t # None /\ t \notin taken
             THEN map_can_grow_cluster(m, Tail(to_check) \o Neighbors4(p),
                                       checked \cup {p}, count + 1, taken, size)
             ELSE map_can_grow_cluster(m, Tail(to_check), checked \cup {p}, count,
                                       taken, size)

\* GameMap._find_random_start on map m: the ids of the positions it can
\* return (none: it returns None).
map_find_random_start(m, taken, cluster_size) ==
    {t \in DOMAIN m.territories \ taken :
        map_can_grow_cluster(m, <<<<m.territories[t].grid_x, m.territories[t].grid_y>>>>,
                             {}, 0, taken, cluster_size)}

\* Team.add_territory on the lists and owners of an assignment.
assignment_add_territory(lists, team, id) ==
    IF id \notin lists.territories[team]
    THEN [owner |-> [t \in DOMAIN lists.owner |->
                        IF t = id THEN team ELSE lists.owner[t]],
          territories |-> [f \in DOMAIN lists.territories |->
                              IF f = team THEN lists.territories[f] \cup {id}
                              ELSE lists.territories[f]]]
    ELSE lists

\* _assign_cluster that goes on from a cell it cannot assign as well.
RECURSIVE map_assign_cluster_through_taken(_, _, _, _, _, _, _)
map_assign_cluster_through_taken(m, to_check, checked, assigned_ids, taken, count, own) ==
    IF to_check = <<>> \/ Cardinality(assigned_ids) >= count THEN {assigned_ids}
    ELSE LET p == Head(to_check)
             t == map_get_territory_at(m, p[1], p[2])
         IN  IF p \in checked
             THEN map_assign_cluster_through_taken(m, Tail(to_check), checked,
                                                   assigned_ids, taken, count, own)
             ELSE IF t # None /\ t \notin taken /\ own[t] = None /\ t \notin assigned_ids
             THEN UNION {map_assign_cluster_through_taken(
                             m, Tail(to_check) \o sh, checked \cup {p},
                             assigned_ids \cup {t}, taken, count, own) :
                            sh \in Shuffles4(Neighbors4(p))}
             ELSE IF t # None
             THEN map_assign_cluster_through_taken(
                      m, Tail(to_check) \o Neighbors4(p), checked \cup {p},
                      assigned_ids, taken, count, own)
             ELSE map_assign_cluster_through_taken(m, Tail(to_check), checked \cup {p},
                                                   assigned_ids, taken, count, own)

\* GameMap._assign_cluster on map m: the loop from (to_check, checked,
\* assigned_ids); own is Territory.owner on entry (the owners the loop sets
\* are those of assigned_ids).  The sets of ids it can assign.
RECURSIVE map_assign_cluster(_, _, _, _, _, _, _)
map_assign_cluster(m, to_check, checked, assigned_ids, taken, count, own) ==
    IF to_check = <<>> \/ Cardinality(assigned_ids) >= count THEN {assigned_ids}
    ELSE LET p == Head(to_check)
             t == map_get_territory_at(m, p[1], p[2])
         IN  IF p \in checked
             THEN map_assign_cluster(m, Tail(to_check), checked, assigned_ids, taken,
                                     count, own)
             ELSE IF t # None /\ t \notin taken /\ own[t] = None /\ t \notin assigned_ids
             THEN UNION {map_assign_cluster(m, Tail(to_check) \o sh, checked \cup {p},
                                            assigned_ids \cup {t}, taken, count, own) :
                            sh \in Shuffles4(Neighbors4(p))}
             ELSE map_assign_cluster(m, Tail(to_check), checked \cup {p}, assigned_ids,
                                     taken, count, own)

\* team.add_territory for every id of a set, on the lists and owners a.
RECURSIVE assignment_add_territories(_, _, _)
assignment_add_territories(a, f, ids) ==
    IF ids = {} THEN a
    ELSE LET t == CHOOSE t \in ids : TRUE
         IN  assignment_add_territories(assignment_add_territory(a, f, t), f, ids \ {t})

\* start_pos of team f in assign_clustered_start, kept with the lists and
\* owners b that the assignment of f's cluster left.
assignment_with_start(a, b, f, st) ==
    [owner |-> b.owner, territories |-> b.territories,
     start |-> [g \in DOMAIN a.start |-> IF g = f THEN st ELSE a.start[g]]]

\* GameMap.assign_clustered_start on map m for the teams i .. n - 1: the
\* lists and owners it can leave, with the start_pos it found for each team
\* (None: _find_random_start returned None).
RECURSIVE map_assign_clustered_start(_, _, _, _, _, _)
map_assign_clustered_start(m, a, i, n, taken, territories_per_team) ==
    IF i >= n THEN {a}
    ELSE LET starts == map_find_random_start(m, taken, territories_per_team)
         IN  IF starts = {}
             THEN map_assign_clustered_start(m, a, i + 1, n, taken, territories_per_team)
             ELSE UNION {UNION {map_assign_clustered_start(
                                    m, assignment_with_start(
                                           a, assignment_add_territories(a, i, ids),
                                           i, st),
                                    i + 1, n,
                                    taken \cup ids, territories_per_team) :
                                   ids \in map_assign_cluster(
                                              m, <<<<m.territories[st].grid_x,
                                                     m.territories[st].grid_y>>>>,
                                              {}, {}, taken, territories_per_team,
                                              a.owner)} :
                            st \in starts}

\* A fresh map and n teams without territory.
FreshAssignment(m, n) ==
    [owner |-> [t \in DOMAIN m.territories |-> None],
     territories |-> [f \in 0 .. (n - 1) |-> {}],
     start |-> [f \in 0 .. (n - 1) |-> None]]

\* game_map.assign_clustered_start(teams, territories_per_team) on a fresh
\* map, once.
AssignClusteredStart ==
    /\ log = NoLog
    /\ \E cols \in 1 .. MaxCols, rows \in 1 .. MaxRows,
          n \in 1 .. MaxClusterTeams, count \in 1 .. MaxClusterSize :
          \E a \in map_assign_clustered_start(GameMap(cols, rows),
                                              FreshAssignment(GameMap(cols, rows), n),
                                              0, n, {}, count) :
             Set([State EXCEPT !.log =
                     [name |-> "assign_clustered_start", map |-> GameMap(cols, rows),
                      teams |-> n, territories_per_team |-> count,
                      owner |-> a.owner, territories |-> a.territories,
                      start |-> a.start]])

NextMap ==
    \/ NewGameMap
    \/ GetTerritoryAt
    \/ GetNeighbors
    \/ AssignClusteredStart

SpecMap == InitMap /\ [][NextMap]_vars

\* ---------------------------------------- the stat operations together
\* The worlds the stat operations are tried in: a start of the game as it
\* is, or with one stat of one team at 0 or at twice the normalization
\* threshold.
StatWorlds ==
    LET T == STAT_NORMALIZATION_THRESHOLD * Unit
        stat(s, f, k, v) ==
            IF k = 1 THEN [s EXCEPT !.teams[f].resources = v]
            ELSE IF k = 2 THEN [s EXCEPT !.teams[f].happiness = v]
            ELSE [s EXCEPT !.teams[f].military_power = v]
    IN  StartStates \cup
        UNION {{stat(s, f, k, v) : f \in Teams, k \in 1 .. 3, v \in {0, 2 * T}} :
               s \in StartStates}

InitStats ==
    \E s \in StatWorlds :
        /\ teams = s.teams
        /\ owner = s.owner
        /\ phase = s.phase
        /\ current_turn = s.current_turn
        /\ current_team_index = s.current_team_index
        /\ winner = s.winner
        /\ waiting_for_advance = s.waiting_for_advance
        /\ selected_territory = s.selected_territory
        /\ has_captured_empty_this_turn = s.has_captured_empty_this_turn
        /\ has_attacked_enemy_this_turn = s.has_attacked_enemy_this_turn
        /\ attacked_territories_this_turn = s.attacked_territories_this_turn
        /\ negotiation_target = s.negotiation_target
        /\ pending_player_offer = s.pending_player_offer
        /\ stat_scale_level = s.stat_scale_level
        /\ log = s.log
        /\ spend_presses = s.spend_presses
        /\ over_calls = s.over_calls
        /\ executed = s.executed
        /\ before = NoBefore

\* ------------------------- the round advance and spending on their own
MaxRounds == 2

\* The worlds a round advance or a purchase is tried in: a start of the game
\* as it is, with one stat of one team at 0, at the normalization threshold
\* or at twice the threshold, with one team eliminated on top of that, or with
\* one alliance formed; each at the first and at the last two scale levels.
RoundWorlds ==
    LET T == STAT_NORMALIZATION_THRESHOLD * Unit
        stat(s, f, k, v) ==
            IF k = 1 THEN [s EXCEPT !.teams[f].resources = v]
            ELSE IF k = 2 THEN [s EXCEPT !.teams[f].happiness = v]
            ELSE [s EXCEPT !.teams[f].military_power = v]
        rich(s) == {stat(s, f, k, v) : f \in Teams, k \in 1 .. 3, v \in {0, T, 2 * T}}
        out(s) == {remove_territory(s, s.owner[t], t) : t \in {u \in Ids : s.owner[u] # None}}
        pairs == {p \in Teams \X Teams : p[1] < p[2]}
        allied(s) == {form_alliance(s, p[1], p[2], d) : p \in pairs, d \in 1 .. MaxDuration}
        stats == StartStates \cup UNION {rich(s) : s \in StartStates}
        base == stats \cup UNION {out(s) : s \in stats}
                      \cup UNION {allied(s) : s \in StartStates}
    IN  {[s EXCEPT !.stat_scale_level = l] :
            s \in base, l \in {0, NumScaleSuffixes - 2, NumScaleSuffixes - 1}}

InitRound ==
    \E s \in RoundWorlds :
        /\ teams = s.teams
        /\ owner = s.owner
        /\ phase = s.phase
        /\ current_turn = s.current_turn
        /\ current_team_index = s.current_team_index
        /\ winner = s.winner
        /\ waiting_for_advance = s.waiting_for_advance
        /\ selected_territory = s.selected_territory
        /\ has_captured_empty_this_turn = s.has_captured_empty_this_turn
        /\ has_attacked_enemy_this_turn = s.has_attacked_enemy_this_turn
        /\ attacked_territories_this_turn = s.attacked_territories_this_turn
        /\ negotiation_target = s.negotiation_target
        /\ pending_player_offer = s.pending_player_offer
        /\ stat_scale_level = s.stat_scale_level
        /\ log = s.log
        /\ spend_presses = s.spend_presses
        /\ over_calls = s.over_calls
        /\ executed = s.executed
        /\ before = NoBefore

\* The call a step made and what it returned.
CallLog(name, f, amount, ok) ==
    [name |-> name, actor |-> f, amount |-> amount, success |-> ok]

\* Game._start_new_turn(), once.
StartNewTurn ==
    /\ executed < MaxRounds
    /\ Call(Executed([start_new_turn(Begin) EXCEPT
                        !.log = CallLog("Round", None, None, TRUE)]))

\* The amounts a purchase is tried with: the spend increment and the starting
\* resources.
Amounts == {RESOURCE_SPEND_INCREMENT * Unit, STARTING_RESOURCES * Unit}

\* team.spend_on_happiness(amount), once.
SpendOnHappiness ==
    /\ executed < MaxRounds
    /\ \E f \in Teams, amount \in Amounts :
          Call(Executed([spend_on_happiness(Begin, f, amount) EXCEPT
                  !.log = CallLog("spend_on_happiness", f, amount,
                                  Begin.teams[f].resources >= amount)]))

\* team.spend_on_military(amount), once.
SpendOnMilitary ==
    /\ executed < MaxRounds
    /\ \E f \in Teams, amount \in Amounts :
          Call(Executed([spend_on_military(Begin, f, amount) EXCEPT
                  !.log = CallLog("spend_on_military", f, amount,
                                  Begin.teams[f].resources >= amount)]))

\* A valid AttackAction(actor, target, from, to).execute(), once.
ValidAttack ==
    /\ executed < MaxRounds
    /\ \E actor \in Teams, target \in TeamOrNone, from \in Ids, to \in Ids :
          /\ AttackIsValid(State, actor, target, from, to)
          /\ \E r \in Rolls(target) :
                Call(Executed(AttackExecute(Begin, actor, target, from, to, r[1], r[2])))

\* team.form_alliance(other, ALLIANCE_DURATION), once.
FormAlliance ==
    /\ executed < MaxRounds
    /\ \E f \in Teams, g \in Teams :
          /\ f # g
          /\ Call(Executed([form_alliance(Begin, f, g, ALLIANCE_DURATION) EXCEPT
                              !.log = CallLog("form_alliance", f, g, TRUE)]))

NextRound ==
    \/ StartNewTurn
    \/ SpendOnHappiness
    \/ SpendOnMilitary

SpecRound == InitRound /\ [][NextRound]_vars

\* The stat operations in any order.
NextStats ==
    \/ StartNewTurn
    \/ SpendOnHappiness
    \/ SpendOnMilitary
    \/ ValidAttack
    \/ FormAlliance

SpecStats == InitStats /\ [][NextStats]_vars

\* ------------------------------------- AIController.decide_action on its own
\* The worlds a decision is taken in: a start of the game as it is or with
\* the unowned territory given to a team next to it, then possibly with one
\* or two alliances formed, then possibly with one or two offers pending.
DecideWorlds ==
    LET grown(s) == {add_territory(s, x[1], x[2]) :
                        x \in {y \in Teams \X Ids :
                                  /\ s.owner[y[2]] = None
                                  /\ \E u \in get_neighbors(y[2]) : s.owner[u] = y[1]}}
        pairs == {p \in Teams \X Teams : p[1] < p[2]}
        allied(s) == {form_alliance(s, p[1], p[2], ALLIANCE_DURATION) : p \in pairs}
        offered(s) == {add_pending_offer_from(s, p[1], p[2]) :
                          p \in {q \in Teams \X Teams : q[1] # q[2]}}
        lands == StartStates \cup UNION {grown(s) : s \in StartStates}
        pact == UNION {allied(s) : s \in lands}
        pacts == lands \cup pact \cup UNION {allied(s) : s \in pact}
        once == UNION {offered(s) : s \in pacts}
    IN  pacts \cup once \cup UNION {offered(s) : s \in once}

\* The worlds an answer to an offer is decided in: the worlds of DecideWorlds
\* where an AI team holds an offer, as they are, or with that team's happiness
\* just below 10 or at 10.
AnswerWorlds ==
    LET held == {w \in DecideWorlds : \E g \in Teams \ {Player} :
                                         w.teams[g].pending_alliance_offers # <<>>}
    IN  held \cup
        {[x[1] EXCEPT !.teams[x[2]].happiness = x[3]] :
            x \in {y \in held \X (Teams \ {Player}) \X {10 * Unit - 1, 10 * Unit} :
                      y[1].teams[y[2]].pending_alliance_offers # <<>>}}

\* A decision starts in any of these worlds.
InitDecide ==
    \E s \in DecideWorlds \cup AnswerWorlds :
        /\ teams = s.teams
        /\ owner = s.owner
        /\ phase = s.phase
        /\ current_turn = s.current_turn
        /\ current_team_index = s.current_team_index
        /\ winner = s.winner
        /\ waiting_for_advance = s.waiting_for_advance
        /\ selected_territory = s.selected_territory
        /\ has_captured_empty_this_turn = s.has_captured_empty_this_turn
        /\ has_attacked_enemy_this_turn = s.has_attacked_enemy_this_turn
        /\ attacked_territories_this_turn = s.attacked_territories_this_turn
        /\ negotiation_target = s.negotiation_target
        /\ pending_player_offer = s.pending_player_offer
        /\ stat_scale_level = s.stat_scale_level
        /\ log = s.log
        /\ spend_presses = s.spend_presses
        /\ over_calls = s.over_calls
        /\ executed = s.executed
        /\ before = NoBefore

\* The controller of team f returned action a.
DecideLog(f, a) == [name |-> "Decide", actor |-> f, action |-> a]

\* controller.decide_action(all_teams) of one AI team, once.
Decide ==
    /\ log = NoLog
    /\ \E f \in Teams \ {Player} : \E o \in decide_action(State, f) :
          Call([o.s EXCEPT !.log = DecideLog(f, o.action)])

NextDecide == Decide

SpecDecide == InitDecide /\ [][NextDecide]_vars

\* ------------------------------- AIController._decide_spending on its own
\* The most purchases one call of the loop makes in the worlds explored.
MaxPurchases == 3

\* The resources a team enters the loop with: whole increments, and whole
\* increments with a remainder just short of one more.
SpendResources ==
    {n * RESOURCE_SPEND_INCREMENT * Unit + d :
        n \in 0 .. MaxPurchases, d \in {0, RESOURCE_SPEND_INCREMENT * Unit - 1}}

\* The worlds the spending is decided in: a start of the game with the
\* resources of one AI team set.
SpendWorlds ==
    {[x[1] EXCEPT !.teams[x[2]].resources = x[3]] :
        x \in StartStates \X (Teams \ {Player}) \X SpendResources}

InitSpend ==
    \E s \in SpendWorlds :
        /\ teams = s.teams
        /\ owner = s.owner
        /\ phase = s.phase
        /\ current_turn = s.current_turn
        /\ current_team_index = s.current_team_index
        /\ winner = s.winner
        /\ waiting_for_advance = s.waiting_for_advance
        /\ selected_territory = s.selected_territory
        /\ has_captured_empty_this_turn = s.has_captured_empty_this_turn
        /\ has_attacked_enemy_this_turn = s.has_attacked_enemy_this_turn
        /\ attacked_territories_this_turn = s.attacked_territories_this_turn
        /\ negotiation_target = s.negotiation_target
        /\ pending_player_offer = s.pending_player_offer
        /\ stat_scale_level = s.stat_scale_level
        /\ log = s.log
        /\ spend_presses = s.spend_presses
        /\ over_calls = s.over_calls
        /\ executed = s.executed
        /\ before = NoBefore

\* The controller of team f is in _decide_spending, at the test of the while
\* loop (at = "while") or past the loop (at = "return"); entered holds the
\* teams as they were when the method was entered.
SpendLog(f, at, entered) ==
    [name |-> "decide_spending", actor |-> f, at |-> at, entered |-> entered]

\* _decide_spending is entered: happiness_ratio is drawn, nothing is spent yet.
SpendEnter ==
    /\ log = NoLog
    /\ \E f \in Teams \ {Player} : Set([State EXCEPT !.log = SpendLog(f, "while", teams)])

\* One pass of the while loop: the test holds, random.random() falls below
\* happiness_ratio or not, and the purchase is made.
SpendPurchase ==
    /\ log.name = "decide_spending"
    /\ log.at = "while"
    /\ teams[log.actor].resources >= RESOURCE_SPEND_INCREMENT * Unit
    /\ \E roll \in BOOLEAN :
          Set(IF roll
              THEN spend_on_happiness(State, log.actor, RESOURCE_SPEND_INCREMENT * Unit)
              ELSE spend_on_military(State, log.actor, RESOURCE_SPEND_INCREMENT * Unit))

\* The test of the while loop fails and the method returns.
SpendReturn ==
    /\ log.name = "decide_spending"
    /\ log.at = "while"
    /\ teams[log.actor].resources < RESOURCE_SPEND_INCREMENT * Unit
    /\ Set([State EXCEPT !.log = SpendLog(log.actor, "return", log.entered)])

NextSpend ==
    \/ SpendEnter
    \/ SpendPurchase
    \/ SpendReturn
    \/ Decide

\* The interpreter keeps running the loop it is in.
SpecSpend ==
    /\ InitSpend
    /\ [][NextSpend]_vars
    /\ WF_vars(SpendPurchase)
    /\ WF_vars(SpendReturn)

\* ----------------------- Team.add_territory and remove_territory on their own
MaxCalls == 2

\* The call a step made on a team and a territory.
TerritoryLog(name, f, t) == [name |-> name, actor |-> f, territory |-> t]

\* team.add_territory(territory), once.
AddTerritory ==
    /\ executed < MaxCalls
    /\ \E f \in Teams, t \in Ids :
          Set(Executed([add_territory(Begin, f, t) EXCEPT
                           !.log = TerritoryLog("add_territory", f, t)]))

\* team.remove_territory(territory), once.
RemoveTerritory ==
    /\ executed < MaxCalls
    /\ \E f \in Teams, t \in Ids :
          Set(Executed([remove_territory(Begin, f, t) EXCEPT
                           !.log = TerritoryLog("remove_territory", f, t)]))

NextTerritory ==
    \/ AddTerritory
    \/ RemoveTerritory

SpecTerritory == InitAttack /\ [][NextTerritory]_vars

\* ------------------------------------------------------------ properties
\* Some team holds every territory of the map.
Dominated(own) == \E f \in Teams : \A t \in Ids : own[t] = f

\* The five conditions of a valid attack, read off the state.
AttackAllowedIn(s, actor, target, from, to) ==
    /\ s.owner[from] = actor
    /\ s.owner[to] # actor
    /\ s.owner[to] = target
    /\ (target = None \/ s.teams[actor].alliances[target] <= 0)
    /\ to \in Range(neighbor_ids(from))

AttackAllowed(actor, target, from, to) == AttackAllowedIn(State, actor, target, from, to)

\* C1: a territory's owner is a team exactly when that team lists the
\* territory, and no team lists a territory twice.
C1_OwnershipBidirectional ==
    \A f \in Teams, t \in Ids :
        /\ teams[f].territories[t] <= 1
        /\ (teams[f].territories[t] > 0) <=> (owner[t] = f)

\* A territory has just passed from one team to another in combat.
C1_Witness ==
    /\ log.name = "Attack"
    /\ log.target # None
    /\ log.success
    /\ owner[log.to] = log.actor

\* C2: an attack executed on a team the actor is allied with is rejected and
\* changes no owner, no territory list and no stat.
C2_NoAttackOnAlly ==
    before.called =>
      ((/\ log.name = "Attack"
        /\ log.target # None
        /\ before.teams[log.actor].alliances[log.target] > 0)
       => (/\ ~log.success
           /\ log.message = "Invalid attack"
           /\ owner = before.owner
           /\ teams = before.teams))

\* An attack on an ally that only the alliance made invalid has been rejected.
C2_Witness ==
    /\ log.name = "Attack"
    /\ log.target # None
    /\ log.ally_turns > 0
    /\ owner[log.from] = log.actor
    /\ owner[log.to] = log.target
    /\ is_adjacent_to(log.from, log.to)
    /\ ~log.success

\* C3: once a capture has left one team with every territory, no round is
\* started before the phase is GAME_OVER.
C3_GameOverBeforeNextRound ==
    [][(phase # "GAME_OVER" /\ Dominated(owner'))
       => current_turn' = current_turn]_vars

\* C4: in GAME_OVER no update, key or click changes the phase, the winner, the
\* round, the team index, any team's stats, alliances or lists, or any owner.
C4_GameOverIsTerminal ==
    [][phase = "GAME_OVER"
       => UNCHANGED <<phase, winner, current_turn, current_team_index,
                      teams, owner>>]_vars

\* An update or an input event has been handled in GAME_OVER.
C4_Witness == phase = "GAME_OVER" /\ over_calls > 0

\* C5: the winner is set exactly in GAME_OVER, the winner then owns every
\* territory, and the win check of any state ends in GAME_OVER exactly when
\* some team's territory count is the size of the map.
C5_WinnerIffGameOver ==
    /\ (winner # None) <=> (phase = "GAME_OVER")
    /\ phase = "GAME_OVER" =>
          /\ winner \in Teams
          /\ \A t \in Ids : owner[t] = winner
          /\ SumUpTo(teams[winner].territories, Cols * Rows - 1) = Cols * Rows
    /\ (check_win_condition(State).phase = "GAME_OVER")
          <=> (\E f \in Teams :
                  SumUpTo(teams[f].territories, Cols * Rows - 1) = Cols * Rows)

\* The game is over and has a winner.
C5_Witness == phase = "GAME_OVER" /\ winner \in Teams /\ over_calls = 0

\* C6: is_valid is true exactly when the actor owns the source, does not own
\* the destination, the destination's owner is the declared target, the
\* target is not an ally, and source and destination are adjacent.
C6_IsValidIffFiveConditions ==
    \A actor \in Teams, target \in TeamOrNone, from \in Ids, to \in Ids :
        AttackIsValid(State, actor, target, from, to)
            <=> AttackAllowed(actor, target, from, to)

\* An attack whose declared target is not the destination's owner, and which
\* nothing else makes invalid, has been rejected.
C6_Witness ==
    /\ log.name = "Attack"
    /\ log.message = "Invalid attack"
    /\ owner[log.from] = log.actor
    /\ owner[log.to] # log.actor
    /\ owner[log.to] # log.target
    /\ is_adjacent_to(log.from, log.to)
    /\ (log.target = None \/ log.ally_turns <= 0)

C8_EmptyCaptureAlwaysSucceeds ==
    before.called =>
      ((/\ log.name = "Attack"
        /\ log.target = None
        /\ AttackAllowedIn(before, log.actor, None, log.from, log.to))
       => (/\ log.success
           /\ log.territory_changed = log.to
           /\ owner[log.to] = log.actor
           /\ teams[log.actor].territories[log.to] = 1
           /\ \A t \in Ids \ {log.to} : owner[t] = before.owner[t]
           /\ \A f \in Teams :
                 /\ teams[f].resources = before.teams[f].resources
                 /\ teams[f].happiness = before.teams[f].happiness
                 /\ teams[f].military_power = before.teams[f].military_power))

\* A team with military power has captured an unowned territory.
C8_Witness ==
    /\ log.name = "Attack"
    /\ log.message = "captured empty territory"
    /\ owner[log.to] = log.actor
    /\ teams[log.actor].military_power > 0

\* C9: the execution of an invalid attack returns a failure with the message
\* "Invalid attack" and changes no owner, list, stat, alliance or offer.
C9_InvalidAttackChangesNothing ==
    before.called =>
      ((/\ log.name = "Attack"
        /\ ~AttackAllowedIn(before, log.actor, log.target, log.from, log.to))
       => (/\ ~log.success
           /\ log.message = "Invalid attack"
           /\ log.territory_changed = None
           /\ owner = before.owner
           /\ teams = before.teams))

\* An attack from a territory the actor does not own has been rejected.
C9_Witness ==
    /\ log.name = "Attack"
    /\ log.message = "Invalid attack"
    /\ owner[log.from] # log.actor

\* C10: the alliance maps are symmetric: A's entry for B and B's entry for A
\* exist together and hold the same number of turns, for every pair of teams.
C10_AllianceSymmetry ==
    \A f \in Teams, g \in Teams : teams[f].alliances[g] = teams[g].alliances[f]

\* The offers from g that f holds.
OffersHeld(ts, f, g) ==
    Len(SelectSeq(ts[f].pending_alliance_offers, LAMBDA x : x = g))

\* C11: a successful Negotiate(A, B) leaves B with exactly one offer from A,
\* which Accept(B, A) and Decline(B, A) can both take; a successful Accept or
\* Decline takes an offer that was there and leaves none, so that both are
\* invalid afterwards; an offer only appears through a successful Negotiate;
\* and a decline leaves Negotiate(A, B) as valid as it was before.
C11_HandshakeConsumesOfferOnce ==
    before.called =>
      (/\ (log.name = "Negotiate" /\ log.success)
            => /\ OffersHeld(teams, log.target, log.actor) = 1
               /\ AcceptIsValid(State, log.target, log.actor)
               /\ DeclineIsValid(State, log.target, log.actor)
       /\ (log.name \in {"Accept Alliance", "Decline Alliance"} /\ log.success)
            => /\ OffersHeld(before.teams, log.actor, log.target) = 1
               /\ OffersHeld(teams, log.actor, log.target) = 0
               /\ ~AcceptIsValid(State, log.actor, log.target)
               /\ ~DeclineIsValid(State, log.actor, log.target)
       /\ \A a \in Teams, b \in Teams :
             (OffersHeld(before.teams, b, a) = 0 /\ OffersHeld(teams, b, a) > 0)
                => (/\ log.name = "Negotiate"
                    /\ log.success
                    /\ log.actor = a
                    /\ log.target = b)
       /\ (log.name = "Decline Alliance" /\ log.success)
            => (NegotiateIsValid(State, log.target, log.actor)
                   <=> NegotiateIsValid(before, log.target, log.actor)))

\* An offer has been declined and the same offer can be made again at once.
C11_Witness ==
    /\ log.name = "Decline Alliance"
    /\ log.success
    /\ NegotiateIsValid(State, log.target, log.actor)

\* C12: a valid Negotiate(actor, target) succeeds and only registers the
\* actor's offer with the target: no alliance map, stat, territory list or
\* owner changes, and no team but the target holds a new offer.
C12_NegotiateOnlyRegistersOffer ==
    before.called =>
      ((/\ log.name = "Negotiate"
        /\ NegotiateIsValid(before, log.actor, log.target))
       => (/\ log.success
           /\ owner = before.owner
           /\ \A f \in Teams :
                 /\ teams[f].alliances = before.teams[f].alliances
                 /\ teams[f].resources = before.teams[f].resources
                 /\ teams[f].happiness = before.teams[f].happiness
                 /\ teams[f].military_power = before.teams[f].military_power
                 /\ teams[f].territories = before.teams[f].territories
                 /\ f # log.target =>
                       teams[f].pending_alliance_offers =
                          before.teams[f].pending_alliance_offers
           /\ Range(teams[log.target].pending_alliance_offers) =
                 Range(before.teams[log.target].pending_alliance_offers) \cup {log.actor}
           /\ OffersHeld(teams, log.actor, log.target) =
                 OffersHeld(before.teams, log.actor, log.target)))

\* An offer has been made and the team it was made to holds it, the team that
\* made it holding none.
C12_Witness ==
    /\ log.name = "Negotiate"
    /\ log.success
    /\ OffersHeld(teams, log.target, log.actor) = 1
    /\ teams[log.actor].pending_alliance_offers = <<>>

\* C13: Accept(actor, target) executed while the actor holds an offer from the
\* target succeeds, removes the offer, takes from each side a third of its own
\* happiness, and sets both alliance entries to ALLIANCE_DURATION, so that
\* each side is allied with the other.
C13_AcceptFormsAlliance ==
    before.called =>
      ((/\ log.name = "Accept Alliance"
        /\ log.target # None
        /\ OffersHeld(before.teams, log.actor, log.target) > 0)
       => LET a == log.actor
              t == log.target
          IN  /\ log.success
              /\ OffersHeld(teams, a, t) = 0
              /\ teams[a].happiness = before.teams[a].happiness - (before.teams[a].happiness \div 3)
              /\ teams[t].happiness = before.teams[t].happiness - (before.teams[t].happiness \div 3)
              /\ teams[a].alliances[t] = ALLIANCE_DURATION
              /\ teams[t].alliances[a] = ALLIANCE_DURATION
              /\ is_allied_with(State, a, t)
              /\ is_allied_with(State, t, a))

\* An offer has been accepted between a team that had happiness 90 and one
\* that had 60, and they are left with 60 and 40.
C13_Witness ==
    /\ log.name = "Accept Alliance"
    /\ log.success
    /\ {teams[log.actor].happiness, teams[log.target].happiness}
          = {60 * Unit, 40 * Unit}
    /\ teams[log.actor].alliances[log.target] = ALLIANCE_DURATION

\* C14: Decline(actor, target) executed while the actor holds an offer from
\* the target succeeds and only removes that offer: the actor's other offers
\* stay, in their order, and no alliance entry, stat, territory list, owner or
\* other team's offer changes.
C14_DeclineOnlyRemovesOffer ==
    before.called =>
      ((/\ log.name = "Decline Alliance"
        /\ log.target # None
        /\ OffersHeld(before.teams, log.actor, log.target) > 0)
       => (/\ log.success
           /\ owner = before.owner
           /\ teams[log.actor].pending_alliance_offers =
                 SelectSeq(before.teams[log.actor].pending_alliance_offers,
                           LAMBDA x : x # log.target)
           /\ \A f \in Teams :
                 /\ teams[f].alliances = before.teams[f].alliances
                 /\ teams[f].resources = before.teams[f].resources
                 /\ teams[f].happiness = before.teams[f].happiness
                 /\ teams[f].military_power = before.teams[f].military_power
                 /\ teams[f].territories = before.teams[f].territories
                 /\ f # log.actor =>
                       teams[f].pending_alliance_offers =
                          before.teams[f].pending_alliance_offers))

\* An offer has been declined by a team that still holds another one.
C14_Witness ==
    /\ log.name = "Decline Alliance"
    /\ log.success
    /\ teams[log.actor].pending_alliance_offers # <<>>
    /\ OffersHeld(teams, log.actor, log.target) = 0

\* C15: Accept and Decline succeed exactly when the actor holds an offer from
\* the target; executed without one, or with no target, they return a failed
\* result and change no alliance map, no pending-offer list and no stat.
C15_NoOfferNoEffect ==
    before.called =>
      ((log.name \in {"Accept Alliance", "Decline Alliance"})
       => LET held == /\ log.target # None
                      /\ OffersHeld(before.teams, log.actor, log.target) > 0
          IN  /\ log.success <=> held
              /\ ~held => (/\ teams = before.teams
                           /\ owner = before.owner
                           /\ log.message \in {"No pending offer to accept",
                                                "No pending offer to decline"}))

\* An acceptance of an offer that was never made has been refused.
C15_Witness ==
    /\ log.name = "Accept Alliance"
    /\ log.target # None
    /\ log.target # log.actor
    /\ ~log.success
    /\ ~is_allied_with(State, log.actor, log.target)

\* The adjacent pairs (territory of f, territory of g) on the map.
SharedBorderPairsIn(s, f, g) ==
    {p \in Ids \X Ids : /\ s.owner[p[1]] = f
                        /\ s.owner[p[2]] = g
                        /\ is_adjacent_to(p[1], p[2])}

SharedBorderPairs(f, g) == SharedBorderPairsIn(State, f, g)

RECURSIVE TickN(_, _, _)
TickN(s, f, n) == IF n = 0 THEN s ELSE TickN(tick_alliances(s, f), f, n - 1)

\* C17: one tick_alliances call of a team lowers each of its entries above 1
\* by exactly 1, removes each entry at or below 1, returns exactly the removed
\* names and touches no other team; so an alliance formed for d turns is
\* still active after d - 1 ticks and gone after the d-th.
C17_TickAlliances ==
    before.called =>
      ((log.name = "Tick")
       => LET f == log.actor
              old == before.teams[f].alliances
              new == teams[f].alliances
          IN  /\ \A g \in Teams :
                    /\ old[g] = None => new[g] = None
                    /\ (old[g] # None /\ old[g] > 1) => new[g] = old[g] - 1
                    /\ (old[g] # None /\ old[g] <= 1) => new[g] = None
              /\ log.expired = {g \in Teams : old[g] # None /\ new[g] = None}
              /\ \A h \in Teams \ {f} : teams[h] = before.teams[h]
              /\ [teams[f] EXCEPT !.alliances = old] = before.teams[f]
              /\ owner = before.owner
              /\ \A g \in Teams \ {f}, d \in 1 .. MaxDuration :
                    LET s0 == form_alliance(before, f, g, d)
                    IN  /\ is_allied_with(TickN(s0, f, d - 1), f, g)
                        /\ TickN(s0, f, d - 1).teams[f].alliances[g] = 1
                        /\ ~is_allied_with(TickN(s0, f, d), f, g)
                        /\ TickN(s0, f, d).teams[f].alliances[g] = None)

\* One tick has removed an expiring alliance of a team and shortened another
\* alliance of the same team.
C17_Witness ==
    /\ log.name = "Tick"
    /\ log.expired # {}
    /\ \E g \in Teams : /\ teams[log.actor].alliances[g] # None
                        /\ teams[log.actor].alliances[g] >= 1

\* The AI factions that still hold territory.
LiveAIs == {i \in Teams \ {Player} : ~is_eliminated(State, i)}

\* C18: the SPACE key pressed in PLAYER_TURN leads to AI_TURN with the turn
\* index at the lowest-indexed AI faction that is not eliminated and
\* waiting_for_advance set, no faction having acted; when no such faction is
\* left, the next round starts at once.
C18_EndPlayerTurn ==
    [][(/\ phase = "PLAYER_TURN"
        /\ State' = handle_key_event(Begin, TRUE, "SPACE"))
       => IF LiveAIs # {}
          THEN /\ phase' = "AI_TURN"
               /\ current_team_index' \in LiveAIs
               /\ \A i \in LiveAIs : current_team_index' <= i
               /\ waiting_for_advance'
               /\ log' = NoLog
               /\ teams' = teams
               /\ owner' = owner
               /\ current_turn' = current_turn
          ELSE /\ current_turn' = current_turn + 1
               /\ phase' = "PLAYER_TURN"
               /\ ~waiting_for_advance'
               /\ ~has_captured_empty_this_turn'
               /\ ~has_attacked_enemy_this_turn']_vars

\* The player has ended the first turn after eliminating faction 1: the game
\* waits for the advance signal with faction 2 next.
C18_Witness ==
    /\ phase = "AI_TURN"
    /\ current_turn = 1
    /\ waiting_for_advance
    /\ is_eliminated(State, 1)
    /\ current_team_index = 2
    /\ log = NoLog

\* The player has ended a turn with no AI faction left and the win not yet
\* complete: the next round has begun.
C18_NoAIWitness ==
    /\ phase = "PLAYER_TURN"
    /\ current_turn = 2
    /\ LiveAIs = {}
    /\ winner = None

\* A step of AI_TURN in which _process_ai_turn got past its wait: the turn
\* index or the round moved on.
Processed ==
    /\ phase = "AI_TURN"
    /\ phase' # "GAME_OVER"
    /\ (current_team_index' # current_team_index \/ current_turn' # current_turn)

\* C19: in AI_TURN nothing acts while waiting_for_advance stays set: until
\* the advance signal (the SPACE key, or SPACE held once the player is
\* eliminated) clears it, no stat, owner, turn index or round changes and no
\* action executes.  A cleared flag lets exactly the faction at the turn
\* index, a live AI faction, decide and execute at most one action; no other
\* faction spends or acts in that step, and afterwards the game waits again
\* at a later faction or has started the next round, so two AI factions
\* never act on one signal.
C19_OneFactionPerAdvance ==
    [][(phase = "AI_TURN")
       => /\ ~Processed => /\ teams' = teams
                           /\ owner' = owner
                           /\ log' = NoLog
          /\ (Processed /\ waiting_for_advance) => is_eliminated(State, Player)
          /\ Processed =>
                /\ current_team_index \in LiveAIs
                /\ log' # NoLog => log'.actor = current_team_index
                /\ current_turn' = current_turn =>
                      \A f \in Teams \ {current_team_index} :
                         /\ teams'[f].resources = teams[f].resources
                         /\ teams'[f].military_power = teams[f].military_power
                /\ \/ /\ current_turn' = current_turn
                      /\ phase' = "AI_TURN"
                      /\ waiting_for_advance'
                      /\ current_team_index' > current_team_index
                      /\ ~is_eliminated(State', current_team_index')
                   \/ /\ current_turn' = current_turn + 1
                      /\ \/ phase' = "PLAYER_TURN"
                         \/ phase' = "AI_TURN" /\ waiting_for_advance']_vars

\* Faction 1 has executed its action and the game waits for the next advance
\* signal before faction 2.
C19_Witness ==
    /\ phase = "AI_TURN"
    /\ waiting_for_advance
    /\ log # NoLog
    /\ log.actor = 1
    /\ current_team_index = 2

\* The step executed an attack of the player.
PlayerAttacked == phase = "PLAYER_TURN" /\ log'.name = "Attack" /\ log'.actor = Player

\* C20: has_captured_empty_this_turn and has_attacked_enemy_this_turn record
\* what the player's executed attacks of the round were: a capture of an
\* unowned territory sets the first, an attack on an enemy territory, won or
\* lost, sets the second, and both stay set while the round lasts.  No attack
\* of the player executes once the first is set and no unowned capture once
\* the second is set, so the player's attacks of a round are one unowned
\* capture with nothing after it, or enemy attacks only.  Both flags are
\* cleared when the round counter moves.
C20_PlayerAttackLimits ==
    [][/\ PlayerAttacked =>
             /\ ~has_captured_empty_this_turn
             /\ log'.target = None => ~has_attacked_enemy_this_turn
             /\ log'.target = None => has_captured_empty_this_turn'
             /\ log'.target # None => has_attacked_enemy_this_turn'
             /\ owner[log'.to] = log'.target
             /\ current_turn' = current_turn
       /\ (log'.name = "Attack" /\ log'.actor = Player) => phase = "PLAYER_TURN"
       /\ current_turn' = current_turn =>
             /\ has_captured_empty_this_turn => has_captured_empty_this_turn'
             /\ has_attacked_enemy_this_turn => has_attacked_enemy_this_turn'
             /\ ~PlayerAttacked =>
                   /\ has_captured_empty_this_turn' = has_captured_empty_this_turn
                   /\ has_attacked_enemy_this_turn' = has_attacked_enemy_this_turn
       /\ current_turn' # current_turn =>
             /\ ~has_captured_empty_this_turn'
             /\ ~has_attacked_enemy_this_turn']_vars

\* In round 2 the player has attacked an enemy territory, and lost, after a
\* first round whose only attack was the capture of an unowned territory: the
\* military power has paid for this one attack only.
C20_Witness ==
    /\ current_turn = 2
    /\ log.name = "Attack"
    /\ log.actor = Player
    /\ log.target # None
    /\ ~log.success
    /\ territory_count(State, Player) = TerritoriesPerTeam + 1
    /\ teams[Player].military_power = (STARTING_MILITARY * Unit * 8) \div 10
    /\ has_attacked_enemy_this_turn
    /\ ~has_captured_empty_this_turn

\* The territories the player could click to attack again: attacked before in
\* the round, not the player's, next to the selected territory.
AttackedAgain ==
    {t \in attacked_territories_this_turn :
        /\ phase = "PLAYER_TURN"
        /\ selected_territory # None
        /\ owner[t] # Player
        /\ is_adjacent_to(selected_territory, t)}

OwnedIn(s, f) == Cardinality({t \in Ids : s.owner[t] = f})

Owned(f) == OwnedIn(State, f)

\* A team's resources after the growth of a round advance.
GrownIn(s, f) ==
    IF OwnedIn(s, f) = 0 THEN s.teams[f].resources
    ELSE s.teams[f].resources + (s.teams[f].happiness * OwnedIn(s, f)) \div (Cols * Rows)

Grown(f) == GrownIn(State, f)

\* A team's happiness after the decay of a round advance.
DecayedIn(s, f) ==
    IF OwnedIn(s, f) = 0 THEN s.teams[f].happiness ELSE (s.teams[f].happiness * 9) \div 10

Decayed(f) == DecayedIn(State, f)

\* After growth and decay some stat of some team is above the threshold.
ExceedsIn(s) ==
    \E f \in Teams :
        \/ GrownIn(s, f) > STAT_NORMALIZATION_THRESHOLD * Unit
        \/ DecayedIn(s, f) > STAT_NORMALIZATION_THRESHOLD * Unit
        \/ s.teams[f].military_power > STAT_NORMALIZATION_THRESHOLD * Unit

Exceeds == ExceedsIn(State)

\* A stat after the normalization check of a round advance.
NormalizedIn(s, x) == IF ExceedsIn(s) THEN x \div STAT_NORMALIZATION_DIVISOR ELSE x

Normalized(x) == NormalizedIn(State, x)

C23_Normalization ==
    before.called =>
      (/\ stat_scale_level >= before.stat_scale_level
       /\ stat_scale_level \in 0 .. (NumScaleSuffixes - 1)
       /\ log.name # "Round" => stat_scale_level = before.stat_scale_level
       /\ log.name = "Round" =>
             IF ExceedsIn(before)
             THEN /\ stat_scale_level =
                        IF before.stat_scale_level = NumScaleSuffixes - 1
                        THEN before.stat_scale_level ELSE before.stat_scale_level + 1
                  /\ \A f \in Teams :
                        /\ teams[f].resources = GrownIn(before, f) \div STAT_NORMALIZATION_DIVISOR
                        /\ teams[f].happiness = DecayedIn(before, f) \div STAT_NORMALIZATION_DIVISOR
                        /\ teams[f].military_power =
                              before.teams[f].military_power \div STAT_NORMALIZATION_DIVISOR
             ELSE /\ stat_scale_level = before.stat_scale_level
                  /\ \A f \in Teams :
                        /\ teams[f].resources = GrownIn(before, f)
                        /\ teams[f].happiness = DecayedIn(before, f)
                        /\ teams[f].military_power = before.teams[f].military_power)

\* A round advance has divided the stats, a military power of twice the
\* threshold among them, at the last scale level, which stayed.
C23_Witness ==
    /\ log.name = "Round"
    /\ stat_scale_level = NumScaleSuffixes - 1
    /\ \E f \in Teams :
          /\ teams[f].military_power =
                (2 * STAT_NORMALIZATION_THRESHOLD * Unit) \div STAT_NORMALIZATION_DIVISOR
          /\ teams[f].happiness =
                ((STARTING_HAPPINESS * Unit * 9) \div 10) \div STAT_NORMALIZATION_DIVISOR

\* C25: spend_on_happiness(amount) and spend_on_military(amount) return false
\* and change nothing when the team's resources are below the amount;
\* otherwise, resources equal to the amount included, they return true, take
\* the amount from the resources and add it to the stat bought, and leave the
\* other stat and everything else unchanged.
C25_Spend ==
    before.called =>
      ((log.name \in {"spend_on_happiness", "spend_on_military"})
       => LET f == log.actor
              a == log.amount
              bought == IF log.name = "spend_on_happiness"
                        THEN [happiness |-> a, military_power |-> 0]
                        ELSE [happiness |-> 0, military_power |-> a]
          IN  /\ owner = before.owner
              /\ \A g \in Teams \ {f} : teams[g] = before.teams[g]
              /\ IF before.teams[f].resources < a
                 THEN ~log.success /\ teams = before.teams
                 ELSE /\ log.success
                      /\ teams[f] =
                            [before.teams[f] EXCEPT
                                !.resources = @ - a,
                                !.happiness = @ + bought.happiness,
                                !.military_power = @ + bought.military_power])

\* A team has bought happiness for exactly all of its resources.
C25_Witness ==
    /\ log.name = "spend_on_happiness"
    /\ log.success
    /\ log.amount = STARTING_RESOURCES * Unit
    /\ teams[log.actor].resources = 0
    /\ teams[log.actor].happiness = (STARTING_HAPPINESS + STARTING_RESOURCES) * Unit
    /\ teams[log.actor].military_power = STARTING_MILITARY * Unit

\* A purchase of military power has been refused for lack of resources.
C25_RefusedWitness ==
    /\ log.name = "spend_on_military"
    /\ ~log.success
    /\ teams[log.actor].resources < log.amount

\* The adjacent pairs (territory of f, unowned territory) on the map.
FreeBorderPairsIn(s, f) ==
    {p \in Ids \X Ids : /\ s.owner[p[1]] = f
                        /\ s.owner[p[2]] = None
                        /\ is_adjacent_to(p[1], p[2])}

FreeBorderPairs(f) == FreeBorderPairsIn(State, f)

\* The factions next to f that f has no live alliance with.
UnalliedNeighborsIn(s, f) ==
    {g \in Teams \ {f} : /\ SharedBorderPairsIn(s, f, g) # {}
                         /\ ~(s.teams[f].alliances[g] # None /\ s.teams[f].alliances[g] > 0)}

UnalliedNeighbors(f) == UnalliedNeighborsIn(State, f)

\* C24: decide_action returns one action or none, by priority: with an offer
\* pending, the acceptance or the refusal of the first pending offer;
\* otherwise, with an unowned territory next to an owned one, an attack with
\* no target on one such pair; otherwise an alliance offer to, or an attack
\* on, an unallied faction next to it, or none; and none when no unallied
\* faction is next to it.  The spending it does first touches no owner, no
\* alliance, no offer and no other team.
C24_DecideActionPriority ==
    before.called =>
      ((log.name = "Decide")
       => LET f == log.actor
              a == log.action
              offers == before.teams[f].pending_alliance_offers
          IN  /\ owner = before.owner
              /\ \A g \in Teams \ {f} : teams[g] = before.teams[g]
              /\ teams[f].pending_alliance_offers = offers
              /\ teams[f].alliances = before.teams[f].alliances
              /\ IF offers # <<>>
                 THEN /\ a.name \in {"Accept Alliance", "Decline Alliance"}
                      /\ a.actor = f
                      /\ a.target = Head(offers)
                 ELSE IF FreeBorderPairsIn(before, f) # {}
                 THEN /\ a.name = "Attack"
                      /\ a.actor = f
                      /\ a.target = None
                      /\ <<a.from, a.to>> \in FreeBorderPairsIn(before, f)
                 ELSE /\ \/ a = NoAction
                         \/ /\ a.name = "Negotiate"
                            /\ a.actor = f
                            /\ a.target \in UnalliedNeighborsIn(before, f)
                         \/ /\ a.name = "Attack"
                            /\ a.actor = f
                            /\ a.target \in UnalliedNeighborsIn(before, f)
                            /\ <<a.from, a.to>> \in SharedBorderPairsIn(before, f, a.target)
                      /\ UnalliedNeighborsIn(before, f) = {} => a = NoAction)

\* A controller has answered a pending offer although an unowned territory
\* lies next to its team.
C24_Witness ==
    /\ log.name = "Decide"
    /\ log.action.name \in {"Accept Alliance", "Decline Alliance"}
    /\ FreeBorderPairs(log.actor) # {}
    /\ UnalliedNeighbors(log.actor) # {}

\* A controller with no offer pending has chosen the capture of an unowned
\* territory although an unallied faction lies next to its team.
C24_CaptureWitness ==
    /\ log.name = "Decide"
    /\ log.action.name = "Attack"
    /\ log.action.target = None
    /\ UnalliedNeighbors(log.actor) # {}

\* A controller whose team has only an ally next to it has returned nothing.
C24_NoneWitness ==
    /\ log.name = "Decide"
    /\ log.action = NoAction
    /\ UnalliedNeighbors(log.actor) = {}
    /\ \E g \in Teams : is_allied_with(State, log.actor, g)

\* A controller with no offer pending and no unowned territory next to its
\* team has chosen an attack on an enemy.
C24_EnemyWitness ==
    /\ log.name = "Decide"
    /\ log.action.name = "Attack"
    /\ log.action.target # None

\* The bidirectional ownership invariant on lists ts and owners own.
Consistent(ts, own) ==
    \A f \in Teams, t \in Ids :
        /\ ts[f].territories[t] <= 1
        /\ (ts[f].territories[t] > 0) <=> (own[t] = f)

\* C26: from a state that satisfies the ownership invariant, one call
\* F.add_territory(T) or F.remove_territory(T), for any F and any T, the
\* territories of other factions included, leaves the invariant satisfied;
\* adding a territory F owns or removing one F does not own changes nothing.
C26_AddRemoveKeepOwnership ==
    [][(/\ log'.name \in {"add_territory", "remove_territory"}
        /\ Consistent(teams, owner))
       => LET f == log'.actor
              t == log'.territory
          IN  /\ Consistent(teams', owner')
              /\ (log'.name = "add_territory" /\ owner[t] = f) =>
                    (teams' = teams /\ owner' = owner)
              /\ (log'.name = "remove_territory" /\ owner[t] # f) =>
                    (teams' = teams /\ owner' = owner)]_vars

\* What holds of the two calls: the invariant is kept by every removal and by
\* every addition of a territory that no other faction owns.
C26_KeptUnlessOwnedByAnother ==
    [][(/\ log'.name \in {"add_territory", "remove_territory"}
        /\ Consistent(teams, owner)
        /\ (log'.name = "add_territory" =>
               owner[log'.territory] \in {None, log'.actor}))
       => LET f == log'.actor
              t == log'.territory
          IN  /\ Consistent(teams', owner')
              /\ (log'.name = "add_territory" /\ owner[t] = f) =>
                    (teams' = teams /\ owner' = owner)
              /\ (log'.name = "remove_territory" /\ owner[t] # f) =>
                    (teams' = teams /\ owner' = owner)]_vars

\* C27: the resources, the happiness and the military power of every team
\* are never negative, whatever purchases, attacks, alliances and round
\* advances (growth, decay, normalization) were made.
C27_StatsNonNegative ==
    \A f \in Teams :
        /\ teams[f].resources >= 0
        /\ teams[f].happiness >= 0
        /\ teams[f].military_power >= 0

\* A team that owns territory has come through a round advance with no
\* resources and no happiness left.
C27_Witness ==
    /\ log.name = "Round"
    /\ \E f \in Teams :
          /\ Owned(f) > 0
          /\ teams[f].resources = 0
          /\ teams[f].happiness = 0

\* A team with no military power has lost an attack.
C27_CombatWitness ==
    /\ log.name = "Attack"
    /\ log.target # None
    /\ ~log.success
    /\ teams[log.actor].military_power = 0

\* The cells of a cols x rows grid.
Cells(cols, rows) == (0 .. (cols - 1)) \X (0 .. (rows - 1))

\* C28: in the map built by GameMap(cols, rows) every cell (x, y) of the grid
\* has exactly the territory with id y * cols + x; the neighbors of a
\* territory are exactly the territories one step up, down, left or right of
\* it inside the grid, each listed once; adjacency is symmetric and no
\* territory is its own neighbor; get_territory_at returns the territory of
\* the cell for coordinates inside the grid and nothing for any other; and
\* the grid of the game is the grid built for its dimensions.
C28_GridStructure ==
    log.name \in {"GameMap", "get_territory_at", "get_neighbors"}
    => LET m == log.map
           ts == m.territories
           step(a, b) ==
               \/ ts[a].grid_x = ts[b].grid_x /\ ts[a].grid_y - ts[b].grid_y \in {1, 0 - 1}
               \/ ts[a].grid_y = ts[b].grid_y /\ ts[a].grid_x - ts[b].grid_x \in {1, 0 - 1}
       IN  /\ DOMAIN ts = 0 .. (m.cols * m.rows - 1)
           /\ \A c \in Cells(m.cols, m.rows) :
                 /\ c[2] * m.cols + c[1] \in DOMAIN ts
                 /\ ts[c[2] * m.cols + c[1]].grid_x = c[1]
                 /\ ts[c[2] * m.cols + c[1]].grid_y = c[2]
           /\ \A a \in DOMAIN ts :
                 /\ ts[a].id = a
                 /\ <<ts[a].grid_x, ts[a].grid_y>> \in Cells(m.cols, m.rows)
                 /\ Range(ts[a].neighbor_ids) = {b \in DOMAIN ts : step(a, b)}
                 /\ Len(ts[a].neighbor_ids) = Cardinality(Range(ts[a].neighbor_ids))
                 /\ a \notin Range(ts[a].neighbor_ids)
                 /\ \A b \in DOMAIN ts :
                       (b \in Range(ts[a].neighbor_ids)) <=> (a \in Range(ts[b].neighbor_ids))
           /\ log.name = "get_territory_at" =>
                 IF <<log.x, log.y>> \in Cells(m.cols, m.rows)
                 THEN /\ log.result # None
                      /\ ts[log.result].grid_x = log.x
                      /\ ts[log.result].grid_y = log.y
                 ELSE log.result = None
           /\ log.name = "get_neighbors" =>
                 IF log.id \in DOMAIN ts
                 THEN log.result = ts[log.id].neighbor_ids
                 ELSE log.result = <<>>
           /\ (m.cols = Cols /\ m.rows = Rows) =>
                 \A t \in Ids : /\ ts[t].grid_x = grid_x(t)
                                /\ ts[t].grid_y = grid_y(t)
                                /\ ts[t].neighbor_ids = neighbor_ids(t)

\* On a map of more than one row and column, the cell just right of the last
\* column has been asked for and nothing was returned.
C28_Witness ==
    /\ log.name = "get_territory_at"
    /\ log.map.cols > 1
    /\ log.map.rows > 1
    /\ log.x = log.map.cols
    /\ log.y = 0
    /\ log.result = None

\* The neighbors of a territory in the last column of a row that is not the
\* last have been returned.
C28_NeighborsWitness ==
    /\ log.name = "get_neighbors"
    /\ log.id \in DOMAIN log.map.territories
    /\ log.map.territories[log.id].grid_x = log.map.cols - 1
    /\ log.map.territories[log.id].grid_y < log.map.rows - 1
    /\ log.id + 1 \notin Range(log.result)

\* The cells of free that can be reached from the cells S through cells of
\* free next to each other on the grid of map m.
RECURSIVE ReachableThrough(_, _, _)
ReachableThrough(m, free, S) ==
    LET Next2(t, u) ==
            LET dx == m.territories[t].grid_x - m.territories[u].grid_x
                dy == m.territories[t].grid_y - m.territories[u].grid_y
            IN  dx * dx + dy * dy = 1
        more == {t \in free \ S : \E u \in S : Next2(t, u)}
    IN  IF more = {} THEN S ELSE ReachableThrough(m, free, S \cup more)

\* The cells no team before team f holds after the assignment logged: the
\* unclaimed cells at the turn of f.
UnclaimedAt(f) ==
    {t \in DOMAIN log.owner : log.owner[t] = None \/ log.owner[t] >= f}

\* At the turn of f some unclaimed cell has the cluster size of unclaimed
\* cells within reach.
RoomAt(f) ==
    \E t \in UnclaimedAt(f) :
        Cardinality(ReachableThrough(log.map, UnclaimedAt(f), {t}))
            >= log.territories_per_team

\* C29: after assign_clustered_start on a fresh map every team holds exactly
\* territories_per_team territories or none, every territory is in the list
\* of its owner only (so of at most one team), and a team holds none only
\* when, at its turn in the order, no unclaimed cell had territories_per_team
\* unclaimed cells within reach through unclaimed neighbors.
C29_ClusteredStart ==
    log.name = "assign_clustered_start" =>
        /\ \A f \in DOMAIN log.territories :
              /\ Cardinality(log.territories[f]) \in {0, log.territories_per_team}
              /\ log.territories[f] = {} => ~RoomAt(f)
              /\ \A t \in DOMAIN log.owner :
                    t \in log.territories[f] <=> log.owner[t] = f

\* A cluster of more than one cell was given to one team and none to a later
\* one.
C29_Witness ==
    /\ log.name = "assign_clustered_start"
    /\ log.territories_per_team > 1
    /\ \E f, g \in DOMAIN log.territories :
          /\ f < g
          /\ Cardinality(log.territories[f]) = log.territories_per_team
          /\ log.territories[g] = {}

\* A team was given none although enough cells were unclaimed at its turn:
\* they were not within reach of one another.
C29_FragmentedWitness ==
    /\ log.name = "assign_clustered_start"
    /\ \E f \in DOMAIN log.territories :
          /\ log.territories[f] = {}
          /\ Cardinality(UnclaimedAt(f)) >= log.territories_per_team

\* C30: every alliance acceptance that is carried out, by an AI faction or by
\* the player, is for a pair of factions that were not allied when it was
\* called, so an alliance in force is never paid for or restarted.
C30_AllianceOnlyBetweenUnallied ==
    [][(log'.name = "Accept Alliance" /\ log'.success)
          => ~is_allied_with(State, log'.actor, log'.target)]_vars

\* C31: NegotiateAction.is_valid is false for an actor and a target while the
\* target still holds an unanswered offer from the actor.
C31_NoOfferWhilePending ==
    \A actor \in Teams, target \in Teams :
        has_pending_offer_from(State, target, actor)
            => ~NegotiateIsValid(State, actor, target)

\* The faction whose turn it is exists and is in the game.
C32_TurnHolder ==
    /\ phase = "PLAYER_TURN" => ~is_eliminated(State, Player)
    /\ phase = "AI_TURN" => /\ current_team_index \in Teams \ {Player}
                            /\ ~is_eliminated(State, current_team_index)

\* Where the game resumes after a round-advance.
C32_Resume ==
    current_turn' # current_turn =>
        IF ~is_eliminated(State', Player)
        THEN phase' = "PLAYER_TURN" /\ current_team_index' = 0
        ELSE /\ phase' = "AI_TURN"
             /\ ~is_eliminated(State', current_team_index')
             /\ current_team_index' \in Teams \ {Player}
             /\ \A f \in Teams \ {Player} :
                   ~is_eliminated(State', f) => current_team_index' <= f

\* C32: in PLAYER_TURN the player is not eliminated; in AI_TURN the active
\* index is that of an AI faction that is not eliminated; a round-advance
\* resumes at PLAYER_TURN with index 0 when the player is not eliminated and
\* otherwise at AI_TURN on the lowest-indexed AI faction that is not
\* eliminated.
C32_TurnHolderInGame == []C32_TurnHolder /\ [][C32_Resume]_vars

\* A round has begun with the player eliminated: the first AI faction in the
\* game holds the turn.
C32_Witness ==
    /\ current_turn > 1
    /\ is_eliminated(State, Player)
    /\ phase = "AI_TURN"
    /\ waiting_for_advance
    /\ \A f \in Teams \ {Player} :
          ~is_eliminated(State, f) => current_team_index <= f

\* A round has begun with the player in the game and an AI faction eliminated.
C32_PlayerWitness ==
    /\ current_turn > 1
    /\ phase = "PLAYER_TURN"
    /\ \E f \in Teams \ {Player} : is_eliminated(State, f)

\* The faction whose turn the state is.
TurnHolder == IF phase = "PLAYER_TURN" THEN Player ELSE current_team_index

\* C33: within a round the turn passes through the factions in strictly
\* increasing index order.  Whatever executes in a step is an action of the
\* faction whose turn it is; an AI faction spends and acts only in a step
\* that moves the turn on; the turn index never goes back while the round
\* lasts; the index leaves an AI faction only in the step in which that
\* faction was processed, and then moves to a higher index or the round
\* advances, so no faction has two turns in a round; and every faction the
\* index passes over, when the player's turn ends, between two AI turns or
\* before the round-advance, is eliminated by then.
C33_TurnOrder ==
    [][/\ log' # NoLog => log'.actor = TurnHolder
       /\ (phase = "AI_TURN" /\ ~Processed) => (log' = NoLog /\ teams' = teams)
       /\ (current_turn' = current_turn /\ phase' # "GAME_OVER")
             => current_team_index' >= current_team_index
       /\ (phase = "PLAYER_TURN" /\ phase' = "AI_TURN" /\ current_turn' = current_turn)
             => \A f \in 1 .. (current_team_index' - 1) : is_eliminated(State', f)
       /\ Processed =>
             /\ ~is_eliminated(State, current_team_index)
             /\ current_turn' = current_turn =>
                   /\ current_team_index' > current_team_index
                   /\ \A f \in (current_team_index + 1) .. (current_team_index' - 1) :
                         is_eliminated(State', f)
             /\ current_turn' # current_turn =>
                   \A f \in (current_team_index + 1) .. (NumTeams - 1) :
                      is_eliminated(State', f)]_vars

\* Faction 1 has taken the last territory of faction 2 in its turn, and the
\* turn went past faction 2 to the next round.
C33_Witness ==
    /\ log.name = "Attack"
    /\ log.actor = 1
    /\ log.target = 2
    /\ is_eliminated(State, 2)
    /\ current_turn > 1
    /\ current_team_index <= 1

\* Faction 2 has taken its turn after faction 1 in the same round.
C33_BothWitness ==
    /\ log # NoLog
    /\ log.actor = 2
    /\ ~is_eliminated(State, 1)
    /\ current_turn > 1

\* C34: from every AI_TURN state of a round explored, with update steps and
\* SPACE presses going on, the game reaches GAME_OVER or the round advances,
\* and then it is the player's turn if the player is not eliminated (and the
\* turn of an AI faction otherwise).
C34_RoundEnds ==
    \A r \in 1 .. MaxLiveTurn :
        (phase = "AI_TURN" /\ current_turn = r)
            ~> \/ phase = "GAME_OVER"
               \/ /\ current_turn = r + 1
                  /\ IF is_eliminated(State, Player) THEN phase = "AI_TURN"
                                                     ELSE phase = "PLAYER_TURN"

\* The last AI faction has acted and the next round has begun with the
\* player's turn.
C34_Witness ==
    /\ current_turn = 2
    /\ phase = "PLAYER_TURN"
    /\ log # NoLog
    /\ log.actor = NumTeams - 1

\* The next round has begun with the player eliminated.
C34_AutoWitness ==
    /\ current_turn = 2
    /\ phase = "AI_TURN"
    /\ is_eliminated(State, Player)

\* The territories without owner.
Unowned == {t \in Ids : owner[t] = None}

\* Some faction holds territory.
C35_SomeoneInGame == \E f \in Teams : ~is_eliminated(State, f)

\* A step leaves every owned territory owned, by the same faction or by
\* another, and adds no unowned territory.
C35_OwnedStaysOwned ==
    /\ \A t \in Ids : owner[t] # None => owner'[t] # None
    /\ Cardinality({t \in Ids : owner'[t] = None}) <= Cardinality(Unowned)

\* C35: during play no owned territory becomes unowned: a step leaves an
\* owner as it is, gives an unowned territory to a faction, or moves a
\* territory from one faction to another; the number of unowned territories
\* never grows, and in every state some faction is not eliminated.
C35_NeverUnownedAgain == []C35_SomeoneInGame /\ [][C35_OwnedStaysOwned]_vars

\* A territory has just passed from the faction attacked to the attacker.
C35_Witness ==
    /\ log.name = "Attack"
    /\ log.success
    /\ log.target # None
    /\ owner[log.to] = log.actor
    /\ teams[log.target].territories[log.to] = 0

\* An unowned territory has just been captured and none is unowned any more.
C35_CaptureWitness ==
    /\ log.name = "Attack"
    /\ log.success
    /\ log.target = None
    /\ Unowned = {}

\* C36: elimination is permanent.  A faction without territory has none
\* after any step, is not the faction whose turn it is, is not the actor of
\* any action executed (attack, offer, accept, decline), and spends nothing:
\* its resources and military power stay as they are while the round lasts.
C36_EliminationIsPermanent ==
    [][\A f \in Teams :
          is_eliminated(State, f) =>
             /\ is_eliminated(State', f)
             /\ phase' \in {"PLAYER_TURN", "AI_TURN"} => TurnHolder' # f
             /\ log' # NoLog => log'.actor # f
             /\ current_turn' = current_turn =>
                   /\ teams'[f].resources = teams[f].resources
                   /\ teams'[f].military_power = teams[f].military_power
                   /\ teams'[f].happiness <= teams[f].happiness]_vars

\* Faction 1 is eliminated and was passed over in round 2: faction 2 has
\* attacked another faction in that round.
C36_Witness ==
    /\ is_eliminated(State, 1)
    /\ current_turn = 2
    /\ log.name = "Attack"
    /\ log.actor = 2
    /\ log.target # 1

\* The player is eliminated and the game has gone on for two rounds.
C36_PlayerWitness ==
    /\ is_eliminated(State, Player)
    /\ current_turn >= 3
    /\ phase = "AI_TURN"

\* C37: an AI faction that holds an offer when decide_action is called and
\* has 2 or more alliance entries, or a happiness below 10 once its purchases
\* of the turn are made, answers the first offer with a DeclineAllianceAction
\* whatever the draws are; an AcceptAllianceAction is returned only with
\* fewer than 2 entries and a happiness of at least 10.
C37_NoAcceptWhenFullOrUnhappy ==
    before.called =>
      ((/\ log.name = "Decide"
        /\ before.teams[log.actor].pending_alliance_offers # <<>>)
       => LET f == log.actor
              a == log.action
              entries == Cardinality({g \in Teams : before.teams[f].alliances[g] # None})
              barred == entries >= 2 \/ teams[f].happiness < 10 * Unit
          IN  /\ barred => a = DeclineAllianceAction(
                                  f, Head(before.teams[f].pending_alliance_offers))
              /\ a.name = "Accept Alliance" => ~barred
              /\ a.name \in {"Accept Alliance", "Decline Alliance"})

\* A faction with fewer than 2 alliances and a happiness just below 10 has
\* declined.
C37_Witness ==
    /\ log.name = "Decide"
    /\ log.action.name = "Decline Alliance"
    /\ teams[log.actor].happiness = 10 * Unit - 1
    /\ \E g \in Teams : teams[log.actor].alliances[g] = None /\ g # log.actor

\* A faction with 2 alliance entries and a happiness above 10 has declined.
C37_FullWitness ==
    /\ log.name = "Decide"
    /\ log.action.name = "Decline Alliance"
    /\ teams[log.actor].happiness > 10 * Unit
    /\ Cardinality({g \in Teams : teams[log.actor].alliances[g] # None}) >= 2

\* A faction with a happiness of exactly 10 has accepted.
C37_FloorWitness ==
    /\ log.name = "Decide"
    /\ log.action.name = "Accept Alliance"
    /\ teams[log.actor].happiness = 10 * Unit

\* C38: decide_action first spends the faction's resources in steps of
\* RESOURCE_SPEND_INCREMENT until less than one increment is left, whichever
\* action or none it returns; the loop never makes the resources negative,
\* keeps resources + happiness + military_power as it was, touches no other
\* faction, and terminates.
Wealth(ts, f) == ts[f].resources + ts[f].happiness + ts[f].military_power

C38_NeverNegative == \A f \in Teams : teams[f].resources >= 0

\* What one call of decide_action, or one pass of the loop, does to the teams.
C38_SpendsInSteps ==
    /\ log'.name = "Decide" =>
          LET f == log'.actor
          IN  /\ teams'[f].resources < RESOURCE_SPEND_INCREMENT * Unit
              /\ teams'[f].resources = teams[f].resources % (RESOURCE_SPEND_INCREMENT * Unit)
              /\ Wealth(teams', f) = Wealth(teams, f)
              /\ teams'[f].happiness >= teams[f].happiness
              /\ teams'[f].military_power >= teams[f].military_power
              /\ \A g \in Teams \ {f} : teams'[g] = teams[g]
    /\ (log.name = "decide_spending" /\ log'.name = "decide_spending" /\ log.at = log'.at) =>
          LET f == log.actor
          IN  /\ teams'[f].resources = teams[f].resources - RESOURCE_SPEND_INCREMENT * Unit
              /\ Wealth(teams', f) = Wealth(teams, f)
              /\ \A g \in Teams \ {f} : teams'[g] = teams[g]

\* Past the loop the teams are what decide_spending computes in one piece
\* from the teams the method was entered with.
C38_LoopResult ==
    (log.name = "decide_spending" /\ log.at = "return") =>
        LET f == log.actor
            n == log.entered[f].resources \div (RESOURCE_SPEND_INCREMENT * Unit)
        IN  /\ teams[f].resources < RESOURCE_SPEND_INCREMENT * Unit
            /\ Wealth(teams, f) = Wealth(log.entered, f)
            /\ \E k \in 0 .. n :
                  teams = decide_spending([State EXCEPT !.teams = log.entered], f, k).teams

C38_SpendingLoop ==
    /\ [](C38_NeverNegative /\ C38_LoopResult)
    /\ [][C38_SpendsInSteps]_vars
    /\ ((log.name = "decide_spending" /\ log.at = "while")
           ~> (log.name = "decide_spending" /\ log.at = "return"))

\* A faction that came with three increments and a remainder has spent the
\* three increments and attacks.
C38_Witness ==
    /\ log.name = "Decide"
    /\ log.action.name = "Attack"
    /\ teams[log.actor].resources = RESOURCE_SPEND_INCREMENT * Unit - 1
    /\ Wealth(teams, log.actor) =
          (STARTING_HAPPINESS + STARTING_MILITARY) * Unit
          + (MaxPurchases + 1) * RESOURCE_SPEND_INCREMENT * Unit - 1

\* A faction has gone through the loop three times, buying both, and is past it.
C38_LoopWitness ==
    /\ log.name = "decide_spending"
    /\ log.at = "return"
    /\ teams[log.actor].happiness > log.entered[log.actor].happiness
    /\ teams[log.actor].military_power > log.entered[log.actor].military_power
    /\ log.entered[log.actor].resources - teams[log.actor].resources
          = MaxPurchases * RESOURCE_SPEND_INCREMENT * Unit

\* C39: in a state that satisfies the ownership invariant the shared-border
\* count is symmetric: counted from A's territories towards B it is what it is
\* counted from B's territories towards A, so the two directions of a
\* Negotiate agree on the border threshold.
C39_SymmetricBorders ==
    Consistent(teams, owner) =>
        \A f \in Teams, g \in Teams :
            /\ count_shared_borders(State, f, g) = count_shared_borders(State, g, f)
            /\ (count_shared_borders(State, f, g) >= ALLIANCE_MIN_SHARED_BORDERS)
                  <=> (count_shared_borders(State, g, f) >= ALLIANCE_MIN_SHARED_BORDERS)

\* After an add_territory the invariant holds and a faction of one territory
\* shares two borders with a faction of two territories.
C39_Witness ==
    /\ log.name = "add_territory"
    /\ Consistent(teams, owner)
    /\ \E f \in Teams, g \in Teams :
          /\ f # g
          /\ territory_count(State, f) = 1
          /\ territory_count(State, g) = 2
          /\ count_shared_borders(State, f, g) = 2
          /\ count_shared_borders(State, g, f) = 2

\* Where the invariant is broken the two directions can differ.
C39_BrokenWitness ==
    /\ ~Consistent(teams, owner)
    /\ \E f \in Teams, g \in Teams :
          count_shared_borders(State, f, g) # count_shared_borders(State, g, f)

\* C40: after assign_clustered_start on a fresh map the territories of each
\* team form one 4-connected cluster: a team that was given territories was
\* given its start cell, and every territory of the team is reachable from
\* the start cell through adjacent territories of the same team.
C40_OneCluster ==
    log.name = "assign_clustered_start" =>
        \A f \in DOMAIN log.territories :
            IF log.territories[f] = {} THEN log.start[f] = None
            ELSE /\ log.start[f] \in log.territories[f]
                 /\ ReachableThrough(log.map, log.territories[f], {log.start[f]})
                       = log.territories[f]

\* Two teams were each given a cluster of three cells, the later one with a
\* cell diagonal to its start cell.
C40_Witness ==
    /\ log.name = "assign_clustered_start"
    /\ log.territories_per_team = MaxClusterSize
    /\ \E f, g \in DOMAIN log.territories :
          /\ f < g
          /\ Cardinality(log.territories[f]) = MaxClusterSize
          /\ Cardinality(log.territories[g]) = MaxClusterSize
          /\ \E t, u \in log.territories[g] :
                /\ u = log.start[g]
                /\ log.map.territories[t].grid_x # log.map.territories[u].grid_x
                /\ log.map.territories[t].grid_y # log.map.territories[u].grid_y

====
